---- MODULE Spec2Model ----
(***************************************************************************)
(* Model of mdtoimage: the block normaliser (src/src/parser/index.ts),     *)
(* the render orchestrator with its height estimator and font loading      *)
(* (src/src/renderer/index.ts), the components, the highlighter, the       *)
(* watermark and the command line.                                         *)
(*                                                                         *)
(* Conventions.                                                            *)
(*  - A syntax-tree node and a NormalizedBlock are records; a field that   *)
(*    is undefined in the program is a field the record does not have.     *)
(*  - A JavaScript string is a sequence of one-character strings, so that  *)
(*    concatenation, length, emptiness and split('\n') are computed.       *)
(*  - Pixel amounts of the estimator are kept in tenths of a pixel,        *)
(*    because the heading term (size * 1.2 + gap * 0.5) is not a whole     *)
(*    number; Infinity (division by a zero characters-per-line) is a       *)
(*    separate value.  The code adds in binary floating point, which can   *)
(*    move a total that is a whole number by one unit in the last place    *)
(*    when a heading term took part; totals without headings are exact.    *)
(*  - An option that is a boolean or an object, or a name or an object,    *)
(*    is a record whose fields tell which: [bool |-> b] or a config,       *)
(*    [name |-> n] or a Theme.                                             *)
(*  - A visual node is a record [type, style, children]; a string among   *)
(*    the children is [string |-> s] and null is [null |-> TRUE].          *)
(*  - What the program meets outside itself (the file read, the font       *)
(*    files and URLs, the highlighter, the raster encoder) is fixed per    *)
(*    behaviour in env.  The rendering step of the pipeline takes the      *)
(*    highlighter by its outcome; the interleaving of concurrent calls of  *)
(*    initHighlighter is a specification of its own (SpecHighlighter).     *)
(*  - A number-valued option that is NaN is a field the options record     *)
(*    does not have: the renderer reads these options through || and if.   *)
(***************************************************************************)
EXTENDS Integers, Sequences, FiniteSets, TLC

VARIABLES
    options,          \* RenderOptions of the call
    pc,               \* position inside renderMarkdownToImage / normalizeAST
    ast,              \* syntax tree: parseMarkdown's result, normalizeAST's argument
    blocks,           \* NormalizedBlock[] returned by normalizeAST
    idx,              \* position of the estimator's for-loop over blocks
    estimatedHeight,  \* the estimator's running total
    finalHeight,      \* <<>> until decided, then <<height>>
    satoriCalls,      \* heights handed to the vector renderer, in call order
    result,           \* <<>> until the call returns, then <<RenderResult>>
    steps,            \* the pipeline steps taken so far, in order
    env,              \* what the world does: file read, fonts, highlighter, encoder
    markdown,         \* the text handed to parseMarkdown
    satoriFonts,      \* the fonts loadFontsForSatori has collected
    contentBlocks,    \* the visual nodes of the top-level blocks, in order
    jsxTree,          \* <<>> until satori is called, then <<the root visual node>>
    sharpCalls,       \* the calls of the raster encoder, in order
    cli,              \* the command line: its flags, what it printed, its exit code
    highlighters,     \* per theme mode, the module's instance and cached promise
    createCalls,      \* per theme mode, how often createHighlighter was invoked
    callers,          \* the concurrent callers of initHighlighter
    promiseAll        \* one Promise.all over renderBlock calls: inputs, slots, completion order

vars == <<options, pc, ast, blocks, idx, estimatedHeight, finalHeight,
          satoriCalls, result, steps, env, markdown, satoriFonts,
          contentBlocks, jsxTree, sharpCalls, cli, highlighters, createCalls,
          callers,
          promiseAll>>

----------------------------------------------------------------------------
(* Bounds of the model *)

MaxInline == 3      \* longest run of leaf inline nodes under one parent
MaxKids == 2        \* longest child sequence of a nested inline container
MaxNested == 2      \* longest child sequence of a nested block container
MaxBlocks == 2      \* longest top-level block sequence of a parsed document
MaxCallers == 3     \* concurrent callers of initHighlighter
MaxCalls == 1       \* calls of initHighlighter each caller makes

----------------------------------------------------------------------------
(* JavaScript helpers *)

Has(r, f) == f \in DOMAIN r

\* x.children || []
ChildrenOrEmpty(node) == IF Has(node, "children") THEN node.children ELSE <<>>

RECURSIVE CountNewlines(_)
CountNewlines(s) ==
    IF s = <<>> THEN 0
    ELSE (IF Head(s) = "\n" THEN 1 ELSE 0) + CountNewlines(Tail(s))

\* s.split('\n').length
SplitLength(s) == 1 + CountNewlines(s)

\* the string that += produces for an undefined operand
UndefinedText == <<"u", "n", "d", "e", "f", "i", "n", "e", "d">>

----------------------------------------------------------------------------
(* parser: normalizeInlineContent, normalizeNode, normalizeAST *)

TextBlock(s) == [type |-> "text", content |-> s]

\* a flush without the test of the accumulator
FlushTextAlways(res, currentText) == Append(res, TextBlock(currentText))

\* if (currentText) { result.push({type: 'text', content: currentText}) }
FlushText(res, currentText) ==
    IF currentText # <<>> THEN Append(res, TextBlock(currentText)) ELSE res

\* the three fields of a link or image block that are copied when defined
CopyIfDefined(node, from, to) ==
    IF Has(node, from) THEN [x \in {to} |-> node[from]] ELSE <<>>

ImageBlock(node) ==
    [type |-> "image"] @@ CopyIfDefined(node, "url", "url")
                       @@ CopyIfDefined(node, "alt", "alt")
                       @@ CopyIfDefined(node, "title", "title")

LinkBlock(node, children) ==
    [type |-> "link", children |-> children]
        @@ CopyIfDefined(node, "url", "url")
        @@ CopyIfDefined(node, "title", "title")

RECURSIVE normalizeInlineContent(_)

\* Each On... operator is one case of the switch in normalizeInlineContent:
\* the state of the scan (result, currentText) after the case has run.
Scan(res, currentText) == [result |-> res, currentText |-> currentText]

\* case 'text': currentText += text.value
OnText(node, res, currentText) ==
    Scan(res, currentText \o (IF Has(node, "value") THEN node.value
                              ELSE UndefinedText))

\* a break that closes the pending text and starts a new block
OnBreakFlushes(node, res, currentText) ==
    Scan(FlushText(res, currentText), <<>>)

\* case 'break': currentText += '\n'
OnBreak(node, res, currentText) == Scan(res, Append(currentText, "\n"))

\* cases 'inlineCode', 'strong', 'emphasis', 'link', 'image': flush the
\* pending text, clear it, push the construct's own block
ConstructBlock(node) ==
    CASE node.type = "inlineCode" ->
            [type |-> "inlineCode"] @@ CopyIfDefined(node, "value", "content")
      [] node.type \in {"strong", "emphasis"} ->
            [type |-> node.type,
             children |-> normalizeInlineContent(ChildrenOrEmpty(node))]
      [] node.type = "link" ->
            LinkBlock(node, normalizeInlineContent(ChildrenOrEmpty(node)))
      [] node.type = "image" -> ImageBlock(node)

\* a construct that pushes the pending text and keeps it pending
OnConstructKeepsText(node, res, currentText) ==
    Scan(Append(FlushText(res, currentText), ConstructBlock(node)), currentText)

OnConstruct(node, res, currentText) ==
    Scan(Append(FlushText(res, currentText), ConstructBlock(node)), <<>>)

OnUnknownFlushes(node, res, currentText) ==
    Scan(FlushText(res, currentText), <<>>)

\* default: unknown inline type, nothing happens
OnUnknown(node, res, currentText) == Scan(res, currentText)

InlineConstructs == {"inlineCode", "strong", "emphasis", "link", "image"}

InlineStep(node, res, currentText) ==
    CASE node.type = "text" -> OnText(node, res, currentText)
      [] node.type \in InlineConstructs -> OnConstruct(node, res, currentText)
      [] node.type = "break" -> OnBreak(node, res, currentText)
      [] OTHER -> OnUnknown(node, res, currentText)

RECURSIVE InlineScan(_, _, _)

\* the for-loop of normalizeInlineContent and the flush after it
InlineScan(nodes, res, currentText) ==
    IF nodes = <<>> THEN FlushText(res, currentText)
    ELSE LET s == InlineStep(Head(nodes), res, currentText)
         IN InlineScan(Tail(nodes), s.result, s.currentText)

normalizeInlineContent(nodes) == InlineScan(nodes, <<>>, <<>>)

\* list.ordered || false
ListOrdered(list) == IF Has(list, "ordered") THEN list.ordered ELSE FALSE

\* list.start || 1
ListStart(list) ==
    IF Has(list, "start") /\ list.start # 0 THEN list.start ELSE 1

\* item.depth || 0
ItemDepth(item) == IF Has(item, "depth") THEN item.depth ELSE 0

RECURSIVE normalizeAST(_)
RECURSIVE normalizeNode(_)
RECURSIVE NormalizeChildren(_)
RECURSIVE NormalizeItems(_)

\* the children of a container treated as inline content instead of blocks
NestedBlocksInline(node) == normalizeInlineContent(ChildrenOrEmpty(node))

\* normalizeAST({ type: 'root', children: node.children || [] })
NestedBlocks(node) ==
    normalizeAST([type |-> "root", children |-> ChildrenOrEmpty(node)])

\* for (const child of root.children) blocks.push(...normalizeNode(child))
NormalizeChildren(children) ==
    IF children = <<>> THEN <<>>
    ELSE normalizeNode(Head(children)) \o NormalizeChildren(Tail(children))

\* (list.children || []).map(item => ({type: 'listItem', ...}))
NormalizeItems(items) ==
    IF items = <<>> THEN <<>>
    ELSE <<[type |-> "listItem",
            depth |-> ItemDepth(Head(items)),
            children |-> NestedBlocks(Head(items))]
              @@ CopyIfDefined(Head(items), "checked", "checked")>>
         \o NormalizeItems(Tail(items))

normalizeNode(node) ==
    CASE node.type = "heading" ->
            <<[type |-> "heading",
               children |-> normalizeInlineContent(ChildrenOrEmpty(node))]
                 @@ CopyIfDefined(node, "depth", "level")>>
      [] node.type = "paragraph" ->
            <<[type |-> "paragraph",
               children |-> normalizeInlineContent(ChildrenOrEmpty(node))]>>
      [] node.type = "code" ->
            <<[type |-> "code"]
                 @@ CopyIfDefined(node, "value", "content")
                 @@ (IF Has(node, "lang") /\ node.lang # <<>>
                     THEN [language |-> node.lang] ELSE <<>>)>>
      [] node.type = "blockquote" ->
            <<[type |-> "blockquote",
               children |-> NestedBlocks(node)]>>
      [] node.type = "list" ->
            <<[type |-> "list",
               ordered |-> ListOrdered(node),
               start |-> ListStart(node),
               children |-> NormalizeItems(ChildrenOrEmpty(node))]>>
      [] node.type = "thematicBreak" -> <<[type |-> "thematicBreak"]>>
      [] node.type = "html" -> <<>>
      [] OTHER -> <<>>

\* Defined only where the program returns: see NormalizeRaises.
normalizeAST(node) ==
    IF node.type = "root" THEN NormalizeChildren(node.children)
    ELSE normalizeNode(node)

\* `for (const child of root.children)` throws a TypeError when the root has
\* no children field; every nested root is built with `children || []`.
NormalizeRaises(node) == node.type = "root" /\ ~Has(node, "children")

----------------------------------------------------------------------------
(* Syntax trees handed to normalizeAST *)

SeqsUpTo(S, n) == UNION {[1..k -> S] : k \in 0..n}

Text(v) == [type |-> "text", value |-> v]
Html == [type |-> "html", value |-> <<"<", "b", ">">>]
Paragraph(kids) == [type |-> "paragraph", children |-> kids]
Heading(d, kids) == [type |-> "heading", depth |-> d, children |-> kids]
Code(v) == [type |-> "code", value |-> v]
Root(kids) == [type |-> "root", children |-> kids]

\* inline nodes without recognised children; "delete" (strikethrough) is a
\* kind the parser produces and normalizeInlineContent has no case for
InlineLeaves ==
    {Text(<<"a">>), Text(<<"b">>), Text(<<>>),
     [type |-> "break"],
     [type |-> "inlineCode", value |-> <<"c">>],
     [type |-> "image", url |-> "u", alt |-> "i"],
     Html,
     [type |-> "delete", children |-> <<Text(<<"a">>)>>]}

\* children of a nested strong / emphasis / link
KidNodes ==
    {Text(<<"a">>), Html, [type |-> "inlineCode", value |-> <<"c">>],
     [type |-> "strong", children |-> <<Text(<<"a">>), Html, Text(<<"b">>)>>]}

InlineContainers ==
    {[type |-> t, children |-> kids] :
        t \in {"strong", "emphasis"}, kids \in SeqsUpTo(KidNodes, MaxKids)}
    \cup {[type |-> "link", url |-> "u", children |-> kids] :
        kids \in SeqsUpTo(KidNodes, MaxKids)}
    \cup {[type |-> t] : t \in {"strong", "emphasis", "link"}}

InlineSeqs ==
    SeqsUpTo(InlineLeaves, MaxInline)
    \cup {pre \o <<c>> \o post :
            pre \in SeqsUpTo(InlineLeaves, 1), c \in InlineContainers,
            post \in SeqsUpTo(InlineLeaves, 1)}

\* depth fields a heading node may carry; the parser produces 1..6
HeadingDepths == {-1, 0, 1, 3, 6, 7}

InlineTrees ==
    {Root(<<Paragraph(s)>>) : s \in InlineSeqs}
    \cup {Root(<<Heading(d, s)>>) :
            d \in HeadingDepths, s \in SeqsUpTo(InlineLeaves, 1)}
    \cup {Root(<<[type |-> "heading", children |-> <<Text(<<"a">>)>>]>>)}

\* block-level children of a nested container
CoreBlocks ==
    {Paragraph(<<Text(<<"a">>), Html, Text(<<"b">>)>>),
     [type |-> "paragraph"],
     Heading(7, <<Text(<<"a">>)>>),
     [type |-> "heading", depth |-> 2],
     Code(<<"x">>),
     [type |-> "thematicBreak"],
     Html,
     Text(<<"a">>)}

\* start values of ordered lists: "0." "1." "7."
ListStarts == {0, 1, 7}

\* a blockquote or a list whose (items') children are one of kidSeqs; lists
\* also with a child that is not a list item, and both without children
BlockContainers(kidSeqs) ==
    {[type |-> "blockquote", children |-> k] : k \in kidSeqs}
    \cup {[type |-> "list", children |-> <<[type |-> "listItem", children |-> k]>>] :
            k \in kidSeqs}
    \cup {[type |-> "list", ordered |-> TRUE, start |-> 3,
           children |-> <<[type |-> "listItem", checked |-> TRUE, children |-> k], Html>>] :
            k \in kidSeqs}
    \cup {[type |-> "list", ordered |-> o, start |-> n,
           children |-> <<[type |-> "listItem", children |-> k],
                          [type |-> "listItem", children |-> <<>>]>>] :
            o \in BOOLEAN, n \in ListStarts, k \in {<<>>, <<Code(<<"x">>)>>}}
    \cup {[type |-> "blockquote"], [type |-> "list"],
          [type |-> "list", children |-> <<[type |-> "listItem"]>>],
          [type |-> "list", children |-> <<Html>>],
          [type |-> "list", children |-> <<Paragraph(<<Text(<<"a">>)>>)>>]}

Nested0 == SeqsUpTo(CoreBlocks, MaxNested)
Containers1 == BlockContainers(Nested0)
Nested1 ==
    {<<c>> : c \in Containers1}
    \cup {<<Html, c>> : c \in Containers1}
    \cup {<<c, Heading(0, <<Text(<<"a">>)>>)>> : c \in Containers1}
Containers2 == BlockContainers(Nested1)

BlockTrees ==
    {Root(k) : k \in Nested0}
    \cup {Root(<<c>>) : c \in Containers1 \cup Containers2}

\* a root without a children field, and nodes that are not a root
MalformedTrees ==
    {[type |-> "root"]}
    \cup CoreBlocks
    \cup {[type |-> "blockquote", children |-> <<Html, Code(<<"x">>)>>]}

\* every tree a caller of the exported normalizeAST may pass
NormalizeInputs == InlineTrees \cup BlockTrees \cup MalformedTrees

----------------------------------------------------------------------------
(* themes, watermark: getTheme, normalizeWatermark *)

\* lightTheme and darkTheme carry the same spacing
PresetSpacing ==
    [padding |-> 40, gap |-> 24, blockquotePadding |-> 20, codePadding |-> 16]
lightTheme ==
    [background |-> "#ffffff", text |-> "#1a1a1a", codeText |-> "#1a1a1a",
     spacing |-> PresetSpacing]
darkTheme ==
    [background |-> "#1a1a1a", text |-> "#e0e0e0", codeText |-> "#e0e0e0",
     spacing |-> PresetSpacing]

\* A theme option is a name, [name |-> "light" | "dark"], or a Theme object.
getTheme(name) ==
    IF Has(name, "spacing") THEN name
    ELSE IF name.name = "dark" THEN darkTheme ELSE lightTheme

\* typeof options.theme === 'string' ? options.theme
\*   : (options.theme?.colors.background === darkTheme.colors.background
\*        ? 'dark' : 'light')
ThemeMode(opts) ==
    IF ~Has(opts, "theme") THEN "light"
    ELSE IF Has(opts.theme, "name") THEN opts.theme.name
    ELSE IF opts.theme.background = darkTheme.background THEN "dark"
    ELSE "light"

\* getTheme(options.theme || 'light')
ThemeOf(opts) ==
    getTheme(IF Has(opts, "theme") THEN opts.theme ELSE [name |-> "light"])

\* A watermark option is a boolean, [bool |-> b], or a WatermarkConfig object.
\* The result is <<>> for null and <<config>> otherwise; of the config only
\* enabled and color are kept, and the modelled options set no color.
normalizeWatermark(opts, theme) ==
    IF ~Has(opts, "watermark") THEN
        <<[enabled |-> TRUE,
           color |-> IF theme.background = "#ffffff" THEN "#999999" ELSE "#cccccc"]>>
    ELSE IF Has(opts.watermark, "bool") THEN
        IF opts.watermark.bool
        THEN <<[enabled |-> TRUE,
                color |-> IF theme.background = "#ffffff" THEN "#999999"
                          ELSE "#cccccc"]>>
        ELSE <<>>
    ELSE <<[enabled |-> IF Has(opts.watermark, "enabled")
                        THEN opts.watermark.enabled ELSE TRUE,
            color |-> theme.text]>>

----------------------------------------------------------------------------
(* renderer: dimensions and the height estimator of renderMarkdownToImage *)

\* numbers of the estimator: tenths of a pixel, or Infinity
Fin(t) == [inf |-> FALSE, tenths |-> t]
Infinity == [inf |-> TRUE, tenths |-> 0]
Px(n) == Fin(n * 10)

Max(a, b) == IF a >= b THEN a ELSE b
Min(a, b) == IF a <= b THEN a ELSE b

\* Math.floor(a / b) for b > 0
FloorDiv(a, b) == IF a >= 0 THEN a \div b ELSE 0 - (((0 - a) + b - 1) \div b)

\* Math.ceil(a / b) for b > 0
CeilDiv(a, b) == 0 - FloorDiv(0 - a, b)

\* options.width || 1200
Width(opts) ==
    IF Has(opts, "width") /\ opts.width # 0 THEN opts.width ELSE 1200

\* options.maxWidth || width - theme.spacing.padding * 2
MaxContentWidth(opts) ==
    IF Has(opts, "maxWidth") /\ opts.maxWidth # 0 THEN opts.maxWidth
    ELSE Width(opts) - ThemeOf(opts).spacing.padding * 2

\* if (options.height)
HeightGiven(opts) == Has(opts, "height") /\ opts.height # 0

\* sizes[level] || 16
getHeadingSize(level) ==
    CASE level = 1 -> 36
      [] level = 2 -> 30
      [] level = 3 -> 24
      [] level = 4 -> 20
      [] level = 5 -> 18
      [] level = 6 -> 16
      [] OTHER -> 16

\* block.level || 1
LevelOrOne(block) ==
    IF Has(block, "level") /\ block.level # 0 THEN block.level ELSE 1

\* block.content?.length || 100
TextLength(block) ==
    IF Has(block, "content") /\ Len(block.content) # 0
    THEN Len(block.content) ELSE 100

\* Math.floor(maxContentWidth / 9)
CharsPerLine(maxContentWidth) == FloorDiv(maxContentWidth, 9)

\* Math.max(1, Math.ceil(textLength / charsPerLine)), a count of lines;
\* a positive length divided by 0 is Infinity
ParagraphLines(textLength, charsPerLine) ==
    IF charsPerLine = 0 THEN Infinity
    ELSE IF charsPerLine > 0
         THEN Fin(Max(1, CeilDiv(textLength, charsPerLine)))
         ELSE Fin(Max(1, 0 - FloorDiv(textLength, 0 - charsPerLine)))

RECURSIVE ListItemsDeep(_)
\* a count that expands the sub-lists nested in the items
ListItemsDeep(block) ==
    IF ~Has(block, "children") THEN 0
    ELSE LET kids == block.children
             Below[i \in 0..Len(kids)] ==
                 IF i = 0 THEN 0
                 ELSE Below[i - 1]
                      + (IF kids[i].type = "listItem" THEN 1 ELSE 0)
                      + ListItemsDeep(kids[i])
         IN Below[Len(kids)]

\* block.children?.length || 0
ListItems(block) == IF Has(block, "children") THEN Len(block.children) ELSE 0

\* block.type === 'code' && block.content
IsCodeWithContent(block) ==
    block.type = "code" /\ Has(block, "content") /\ block.content # <<>>

\* an estimator in which a blockquote grows with the blocks it holds
BlockIncrementNested(block, maxContentWidth, theme) ==
    LET gap == theme.spacing.gap
    IN IF IsCodeWithContent(block) THEN
            Px(SplitLength(block.content) * 20 + theme.spacing.codePadding * 2 + gap)
       ELSE IF block.type = "heading" THEN
            Fin(getHeadingSize(LevelOrOne(block)) * 12 + gap * 5)
       ELSE IF block.type = "paragraph" THEN
            LET paragraphLines ==
                    ParagraphLines(TextLength(block), CharsPerLine(maxContentWidth))
            IN IF paragraphLines.inf THEN Infinity
               ELSE Px(paragraphLines.tenths * 24 + gap)
       ELSE IF block.type = "list" THEN Px(ListItems(block) * 28 + gap)
       ELSE IF block.type = "blockquote"
            THEN Px(60 + 30 * Len(ChildrenOrEmpty(block)) + gap)
       ELSE Px(30 + gap)

\* what one iteration of the estimator's loop adds to estimatedHeight
BlockIncrement(block, maxContentWidth, theme) ==
    LET gap == theme.spacing.gap
    IN IF IsCodeWithContent(block) THEN
            Px(SplitLength(block.content) * 20 + theme.spacing.codePadding * 2 + gap)
       ELSE IF block.type = "heading" THEN
            Fin(getHeadingSize(LevelOrOne(block)) * 12 + gap * 5)
       ELSE IF block.type = "paragraph" THEN
            LET paragraphLines ==
                    ParagraphLines(TextLength(block), CharsPerLine(maxContentWidth))
            IN IF paragraphLines.inf THEN Infinity
               ELSE Px(paragraphLines.tenths * 24 + gap)
       ELSE IF block.type = "list" THEN Px(ListItems(block) * 28 + gap)
       ELSE IF block.type = "blockquote" THEN Px(60 + gap)
       ELSE Px(30 + gap)

AssignIncrement(acc, inc) == inc

\* estimatedHeight += inc
AddIncrement(acc, inc) ==
    IF acc.inf \/ inc.inf THEN Infinity ELSE Fin(acc.tenths + inc.tenths)

\* let estimatedHeight = padding * 2
StartHeight(theme) == Px(theme.spacing.padding * 2)

WatermarkReserve == 40

AddWatermarkNever(acc, watermark) == acc

\* if (watermark) { estimatedHeight += 40 }
AddWatermark(acc, watermark) ==
    IF watermark # <<>> THEN AddIncrement(acc, Px(WatermarkReserve)) ELSE acc

MinCanvasHeight == 400
MaxCanvasHeight == 20000

\* Math.ceil of a finite amount, in whole pixels
CeilPx(tenths) ==
    IF tenths >= 0 THEN (tenths + 9) \div 10 ELSE 0 - ((0 - tenths) \div 10)

ClampHeightNoFloor(acc) ==
    IF acc.inf THEN MaxCanvasHeight ELSE Min(CeilPx(acc.tenths), MaxCanvasHeight)

\* Math.max(400, Math.min(Math.ceil(estimatedHeight), 20000))
ClampHeight(acc) ==
    IF acc.inf THEN Max(MinCanvasHeight, MaxCanvasHeight)
    ELSE Max(MinCanvasHeight, Min(CeilPx(acc.tenths), MaxCanvasHeight))

RECURSIVE AccumulateHeight(_, _, _, _)

\* the estimator's loop over bs, started from acc
AccumulateHeight(bs, acc, maxContentWidth, theme) ==
    IF bs = <<>> THEN acc
    ELSE AccumulateHeight(Tail(bs),
            AddIncrement(acc, BlockIncrement(Head(bs), maxContentWidth, theme)),
            maxContentWidth, theme)

\* the whole auto branch: the height committed for bs
AutoHeight(bs, maxContentWidth, theme, watermark) ==
    ClampHeight(AddWatermark(
        AccumulateHeight(bs, StartHeight(theme), maxContentWidth, theme),
        watermark))

----------------------------------------------------------------------------
(* highlighter: tokenizeCode, tokensToSatori *)

\* A highlighter as tokenizeCode meets it, per theme mode: whether
\* initHighlighter resolves, and the languages codeToTokens accepts (it
\* throws for any other).
Shiki(init, langs) ==
    [mode \in {"light", "dark"} |-> [init |-> init, langs |-> langs]]

RECURSIVE SplitLines(_, _)
\* the lines of s after the line `line` begun before it
SplitLines(s, line) ==
    IF s = <<>> THEN <<line>>
    ELSE IF Head(s) = "\n" THEN <<line>> \o SplitLines(Tail(s), <<>>)
    ELSE SplitLines(Tail(s), Append(line, Head(s)))

\* code.split('\n')
Split(code) == SplitLines(code, <<>>)

RECURSIVE PlainLines(_)
\* lines.map(line => [{ content: line, color: undefined }])
PlainLines(lines) ==
    IF lines = <<>> THEN <<>>
    ELSE <<<<[content |-> Head(lines)]>>>> \o PlainLines(Tail(lines))

\* the colour the highlighter's theme gives a token
ShikiColor == "#d73a49"

RECURSIVE ShikiLines(_)
\* hl.codeToTokens(code, ...).tokens: a token list per line, none for an
\* empty line
ShikiLines(lines) ==
    IF lines = <<>> THEN <<>>
    ELSE <<IF Head(lines) = <<>> THEN <<>>
           ELSE <<[content |-> Head(lines), color |-> ShikiColor]>>>>
         \o ShikiLines(Tail(lines))

\* a catch that returns the whole code as one uncoloured line
tokenizeCodeUnsplit(code, language, theme, shiki) ==
    IF language = <<>> \/ language[1] = <<>>
    THEN [tokens |-> PlainLines(Split(code))]
    ELSE IF shiki[theme].init /\ language[1] \in shiki[theme].langs
         THEN [tokens |-> ShikiLines(Split(code))]
         ELSE [tokens |-> <<<<[content |-> code]>>>>]

\* language is <<>> for undefined; the result is [tokens |-> ...] for a
\* return (a thrown error would be [raised |-> TRUE]): the try around
\* initHighlighter and codeToTokens catches every error
tokenizeCode(code, language, theme, shiki) ==
    IF language = <<>> \/ language[1] = <<>>
    THEN [tokens |-> PlainLines(Split(code))]
    ELSE IF shiki[theme].init /\ language[1] \in shiki[theme].langs
         THEN [tokens |-> ShikiLines(Split(code))]
         ELSE [tokens |-> PlainLines(Split(code))]

\* a string among the children of a visual node, and null
Str(s) == [string |-> s]
Null == [null |-> TRUE]

RECURSIVE tokensToSatori(_, _)
tokensToSatori(tokens, defaultColor) ==
    IF tokens = <<>> THEN <<>>
    ELSE <<[type |-> "span",
            style |-> [color |-> IF Has(Head(tokens), "color")
                                 THEN Head(tokens).color ELSE defaultColor],
            children |-> <<Str(Head(tokens).content)>>]>>
         \o tokensToSatori(Tail(tokens), defaultColor)

----------------------------------------------------------------------------
(* components: renderBlock *)

\* A visual node is [type, style, children]: of the style the max width and
\* what tells the kinds of node apart are kept; children is always a
\* sequence, a single child is a sequence of one.

\* a CSS length: a number of pixels (n, or `${n}px`), or '100%'
MaxWidthStyle(maxWidth) ==
    IF maxWidth # <<>> /\ maxWidth[1] # 0 THEN [px |-> maxWidth[1]]
    ELSE [percent |-> 100]

\* renderListItem hands its own maxWidth to renderBlock for each child
ChildWidth(maxWidth) == maxWidth

\* maxWidth ? `${maxWidth - 30}px` : '100%'
ItemWidthStyle(maxWidth) ==
    IF maxWidth # <<>> /\ maxWidth[1] # 0 THEN [px |-> maxWidth[1] - 30]
    ELSE [percent |-> 100]

\* block.content || ''
ContentOrEmpty(block) == IF Has(block, "content") THEN block.content ELSE <<>>

RECURSIVE Decimal(_)
\* `${n}` for a whole number n
Decimal(n) ==
    IF n < 0 THEN <<"-">> \o Decimal(0 - n)
    ELSE IF n < 10
         THEN <<(<<"0", "1", "2", "3", "4", "5", "6", "7", "8", "9">>)[n + 1]>>
         ELSE Decimal(n \div 10) \o Decimal(n % 10)

RECURSIVE CodeLines(_, _)
\* tokens.map(lineTokens => ({ type: 'div', ... }))
CodeLines(tokens, defaultColor) ==
    IF tokens = <<>> THEN <<>>
    ELSE LET lineElements == tokensToSatori(Head(tokens), defaultColor)
         IN <<[type |-> "div",
               style |-> [fontSize |-> 14],
               children |-> IF Len(lineElements) > 0 THEN lineElements
                            ELSE <<[type |-> "span", children |-> <<Str(<<" ">>)>>]>>]>>
            \o CodeLines(Tail(tokens), defaultColor)

RECURSIVE FallbackLines(_, _)
\* the catch of renderCodeBlock: plainLines.map(line => ({ type: 'div',
\* style: { color }, children: line || ' ' }))
FallbackLines(lines, defaultColor) ==
    IF lines = <<>> THEN <<>>
    ELSE <<[type |-> "div",
            style |-> [fontSize |-> 14, color |-> defaultColor],
            children |-> <<Str(IF Head(lines) = <<>> THEN <<" ">>
                               ELSE Head(lines))>>]>>
         \o FallbackLines(Tail(lines), defaultColor)

\* block.language
LanguageOf(block) == IF Has(block, "language") THEN <<block.language>> ELSE <<>>

renderCodeBlock(block, theme, maxWidth, themeMode, shiki) ==
    LET content == ContentOrEmpty(block)
        r == tokenizeCode(content, LanguageOf(block), themeMode, shiki)
    IN [type |-> "div",
        style |-> [padding |-> theme.spacing.codePadding,
                   color |-> theme.codeText,
                   maxWidth |-> MaxWidthStyle(maxWidth)],
        children |-> IF Has(r, "raised")
                     THEN FallbackLines(Split(content), theme.codeText)
                     ELSE CodeLines(r.tokens, theme.codeText)]

renderInlineCode(block, theme) ==
    [type |-> "span",
     style |-> [padding |-> "2px 6px", color |-> theme.codeText],
     children |-> <<Str(ContentOrEmpty(block))>>]

renderThematicBreak(theme, maxWidth) ==
    [type |-> "div",
     style |-> [height |-> 1, maxWidth |-> MaxWidthStyle(maxWidth)]]

\* `[Image: ${block.alt || block.url || 'image'}]`
renderImage(block, theme) ==
    [type |-> "span",
     style |-> [fontStyle |-> "italic"],
     children |-> <<Str(<<"[Image: ",
                          IF Has(block, "alt") /\ block.alt # "" THEN block.alt
                          ELSE IF Has(block, "url") /\ block.url # ""
                               THEN block.url ELSE "image",
                          "]">>)>>]

RECURSIVE renderBlock(_, _, _, _, _)
RECURSIVE RenderAll(_, _, _, _, _)
RECURSIVE RenderItems(_, _, _, _, _, _)

\* Promise.all(children.map(child => renderBlock(child, ...))): the results
\* in the order of the children
RenderAll(bs, theme, maxWidth, themeMode, shiki) ==
    IF bs = <<>> THEN <<>>
    ELSE <<renderBlock(Head(bs), theme, maxWidth, themeMode, shiki)>>
         \o RenderAll(Tail(bs), theme, maxWidth, themeMode, shiki)

renderHeading(block, theme, maxWidth, themeMode, shiki) ==
    [type |-> "div",
     style |-> [fontSize |-> getHeadingSize(LevelOrOne(block)),
                maxWidth |-> MaxWidthStyle(maxWidth)],
     children |-> RenderAll(ChildrenOrEmpty(block), theme, maxWidth,
                            themeMode, shiki)]

renderParagraph(block, theme, maxWidth, themeMode, shiki) ==
    [type |-> "div",
     style |-> [fontSize |-> 16, marginBottom |-> theme.spacing.gap,
                maxWidth |-> MaxWidthStyle(maxWidth)],
     children |-> RenderAll(ChildrenOrEmpty(block), theme, maxWidth,
                            themeMode, shiki)]

renderBlockquote(block, theme, maxWidth, themeMode, shiki) ==
    [type |-> "div",
     style |-> [paddingLeft |-> theme.spacing.blockquotePadding,
                maxWidth |-> MaxWidthStyle(maxWidth)],
     children |-> RenderAll(ChildrenOrEmpty(block), theme, maxWidth,
                            themeMode, shiki)]

renderListItem(block, theme, maxWidth, themeMode, shiki) ==
    [type |-> "div",
     style |-> [flex |-> 1, maxWidth |-> ItemWidthStyle(maxWidth)],
     children |-> RenderAll(ChildrenOrEmpty(block), theme,
                            ChildWidth(maxWidth), themeMode, shiki)]

\* block.children.map((item, index) => marker and item content in a row);
\* number is start + index for an ordered list
RenderItems(items, number, theme, maxWidth, themeMode, shiki) ==
    IF items = <<>> THEN <<>>
    ELSE <<[type |-> "div",
            style |-> [display |-> "flex"],
            children |->
              <<[type |-> "span",
                 style |-> [marginRight |-> 12],
                 children |-> <<Str(IF number = <<>> THEN <<"bullet", " ">>
                                    ELSE Decimal(number[1]) \o <<".", " ">>)>>],
                renderListItem(Head(items), theme, maxWidth, themeMode, shiki)>>]>>
         \o RenderItems(Tail(items),
                        IF number = <<>> THEN number ELSE <<number[1] + 1>>,
                        theme, maxWidth, themeMode, shiki)

\* isOrdered = block.ordered || false, start = block.start || 1
renderList(block, theme, maxWidth, themeMode, shiki) ==
    [type |-> "div",
     style |-> [flexDirection |-> "column",
                maxWidth |-> MaxWidthStyle(maxWidth)],
     children |-> RenderItems(ChildrenOrEmpty(block),
                      IF Has(block, "ordered") /\ block.ordered
                      THEN <<IF Has(block, "start") /\ block.start # 0
                             THEN block.start ELSE 1>>
                      ELSE <<>>,
                      theme, maxWidth, themeMode, shiki)]

\* renderStrong, renderEmphasis: the children are rendered without maxWidth
renderSpan(block, theme, themeMode, shiki) ==
    [type |-> "span",
     style |-> IF block.type = "strong" THEN [fontWeight |-> 700]
               ELSE [fontStyle |-> "italic"],
     children |-> RenderAll(ChildrenOrEmpty(block), theme, <<>>, themeMode, shiki)]

\* children: [...children, block.url ? ` (${block.url})` : '']
renderLink(block, theme, themeMode, shiki) ==
    [type |-> "span",
     style |-> [textDecoration |-> "underline"],
     children |-> Append(RenderAll(ChildrenOrEmpty(block), theme, <<>>,
                                   themeMode, shiki),
                         Str(IF Has(block, "url") /\ block.url # ""
                             THEN <<" (", block.url, ")">> ELSE <<>>))]

renderBlock(block, theme, maxWidth, themeMode, shiki) ==
    CASE block.type = "heading" ->
            renderHeading(block, theme, maxWidth, themeMode, shiki)
      [] block.type = "paragraph" ->
            renderParagraph(block, theme, maxWidth, themeMode, shiki)
      [] block.type = "code" ->
            renderCodeBlock(block, theme, maxWidth, themeMode, shiki)
      [] block.type = "inlineCode" -> renderInlineCode(block, theme)
      [] block.type = "blockquote" ->
            renderBlockquote(block, theme, maxWidth, themeMode, shiki)
      [] block.type = "list" ->
            renderList(block, theme, maxWidth, themeMode, shiki)
      [] block.type = "listItem" ->
            renderListItem(block, theme, maxWidth, themeMode, shiki)
      [] block.type = "thematicBreak" -> renderThematicBreak(theme, maxWidth)
      [] block.type = "text" -> Str(ContentOrEmpty(block))
      [] block.type \in {"strong", "emphasis"} ->
            renderSpan(block, theme, themeMode, shiki)
      [] block.type = "link" -> renderLink(block, theme, themeMode, shiki)
      [] block.type = "image" -> renderImage(block, theme)
      [] OTHER -> Null

----------------------------------------------------------------------------
(* watermark, root node, output format *)

\* if (!watermark.enabled) return null; the overlay is positioned absolutely
renderWatermark(watermark, width, height, theme) ==
    IF ~watermark.enabled THEN Null
    ELSE [type |-> "div",
          style |-> [position |-> "absolute", color |-> watermark.color],
          children |-> <<Str(<<"watermark">>)>>]

\* [...].filter(Boolean): null and the empty string are dropped
FilterBoolean(children) ==
    SelectSeq(children,
              LAMBDA c : /\ ~Has(c, "null")
                         /\ ~(Has(c, "string") /\ c.string = <<>>))

\* a root that fills its canvas instead of carrying the height
createJsxTreeFull(height, contentBlocks_, watermark, width, theme) ==
    [type |-> "div",
     style |-> [height |-> [percent |-> 100],
                backgroundColor |-> theme.background,
                padding |-> theme.spacing.padding,
                position |-> "relative"],
     children |->
        FilterBoolean(Append(contentBlocks_,
            IF watermark # <<>>
            THEN renderWatermark(watermark[1], width, height, theme)
            ELSE Null))]

\* createJsxTree(height); watermark is <<>> for null
createJsxTree(height, contentBlocks_, watermark, width, theme) ==
    [type |-> "div",
     style |-> [height |-> [px |-> height],
                backgroundColor |-> theme.background,
                padding |-> theme.spacing.padding,
                position |-> "relative"],
     children |->
        FilterBoolean(Append(contentBlocks_,
            IF watermark # <<>>
            THEN renderWatermark(watermark[1], width, height, theme)
            ELSE Null))]

\* options.format || 'png'
Format(opts) ==
    IF Has(opts, "format") /\ opts.format # "" THEN opts.format ELSE "png"

\* a result carrying the buffer next to the base64 text
FormatResultBoth(format, width, height) ==
    IF format = "svg" THEN [svg |-> "finalSvg", width |-> width, height |-> height]
    ELSE IF format = "base64"
         THEN [base64 |-> "pngBuffer.toString('base64')", buffer |-> "pngBuffer",
               width |-> width, height |-> height]
         ELSE [buffer |-> "pngBuffer", width |-> width, height |-> height]

\* the three return statements
FormatResult(format, width, height) ==
    IF format = "svg" THEN [svg |-> "finalSvg", width |-> width, height |-> height]
    ELSE IF format = "base64"
         THEN [base64 |-> "pngBuffer.toString('base64')",
               width |-> width, height |-> height]
         ELSE [buffer |-> "pngBuffer", width |-> width, height |-> height]

----------------------------------------------------------------------------
(* State machine *)

DefaultOptions == [input |-> "doc.md"]

\* let highlighterLight = null, highlighterDark = null, and the two promises
NoHighlighters ==
    [m \in {"light", "dark"} |-> [highlighter |-> <<>>, promise |-> <<>>]]
NoCreateCalls == [m \in {"light", "dark"} |-> 0]

\* no Promise.all over renderBlock calls in flight
NoPromiseAll ==
    [parent |-> [type |-> "root"], inputs |-> <<>>, state |-> "idle",
     slots |-> <<>>, settled |-> <<>>, children |-> <<>>]

\* a call of renderMarkdownToImage from a program, not from the command line
NoCli == [argv |-> <<>>, out |-> <<>>, exit |-> <<>>]

\* readFileSync(options.input, 'utf-8') returns the file's text or throws
FileText == "# from the file"
ReadOutcomes ==
    {[ok |-> TRUE, data |-> FileText]}
    \cup {[ok |-> FALSE, code |-> c] : c \in {"ENOENT", "EISDIR", "EACCES"}}

\* per configured font: no path, loadFont returns, loadFont throws
FontSlots == <<"body", "heading", "code">>
FileOutcomes == {"none", "loaded", "fails"}

\* per fallback URL: whether loadFontFromUrl returns (TRUE) or throws
FetchUrls == {"googleRegular", "googleBold", "jsdelivrRegular", "jsdelivrBold"}

FontEnvs ==
    {[files |-> f, fetch |-> g] :
        f \in [{"body", "heading", "code"} -> FileOutcomes],
        g \in [FetchUrls -> BOOLEAN]}

\* languages of code fences: one the highlighter has loaded, one unknown
Js == <<"j", "s">>
Zz == <<"z", "z">>

\* createHighlighter resolving or rejecting; codeToTokens throwing for every
\* language that is not loaded
ShikiBehaviours == {Shiki(TRUE, {Js}), Shiki(TRUE, {}), Shiki(FALSE, {Js})}

\* a readable input file, font files in place, a working highlighter
DefaultEnv ==
    [read |-> [ok |-> TRUE, data |-> FileText],
     fonts |-> [files |-> [n \in {"body", "heading", "code"} |-> "loaded"],
                fetch |-> [u \in FetchUrls |-> TRUE]],
     shiki |-> Shiki(TRUE, {Js}),
     sharp |-> "ok"]

NoNumber == Fin(0)

\* const blocks = normalizeAST(ast), inside renderMarkdownToImage or as a
\* direct call of the exported function
Normalize ==
    /\ pc = "normalize"
    /\ IF NormalizeRaises(ast)
       THEN /\ pc' = "error"
            /\ UNCHANGED blocks
       ELSE /\ blocks' = normalizeAST(ast)
            /\ pc' = "normalized"
    /\ steps' = Append(steps, "normalize")
    /\ UNCHANGED <<options, ast, idx, estimatedHeight, finalHeight,
                   satoriCalls, result, env, markdown,
                   satoriFonts, contentBlocks, jsxTree,
                   sharpCalls, cli, highlighters, createCalls,
                   callers, promiseAll>>

\* a call of normalizeAST on any tree
InitNormalize ==
    /\ options = DefaultOptions
    /\ pc = "normalize"
    /\ ast \in NormalizeInputs
    /\ blocks = <<>>
    /\ idx = 0
    /\ estimatedHeight = NoNumber
    /\ finalHeight = <<>>
    /\ satoriCalls = <<>>
    /\ result = <<>>
    /\ steps = <<>>
    /\ env = DefaultEnv
    /\ markdown = <<>>
    /\ satoriFonts = <<>>
    /\ contentBlocks = <<>>
    /\ jsxTree = <<>>
    /\ sharpCalls = <<>>
    /\ cli = NoCli
    /\ highlighters = NoHighlighters
    /\ createCalls = NoCreateCalls
    /\ callers = <<>>
    /\ promiseAll = NoPromiseAll

NextNormalize == Normalize

SpecNormalize == InitNormalize /\ [][NextNormalize]_vars

----------------------------------------------------------------------------
(* Walking a normalised forest *)

RECURSIVE SiblingSeqs(_)

\* every sibling sequence of the forest: the sequence itself and, at every
\* depth, the children of each of its blocks
SiblingSeqs(bs) ==
    {bs} \cup UNION {SiblingSeqs(bs[i].children) :
                        i \in {j \in 1..Len(bs) : Has(bs[j], "children")}}

\* every block of the forest, at every depth
BlocksIn(bs) == UNION {{s[i] : i \in 1..Len(s)} : s \in SiblingSeqs(bs)}

----------------------------------------------------------------------------
(* The syntax tree without the nodes the normaliser has no case for *)

BlockKinds ==
    {"heading", "paragraph", "code", "blockquote", "list", "thematicBreak"}
InlineKinds ==
    {"text", "inlineCode", "strong", "emphasis", "link", "image", "break"}
KnownKinds == BlockKinds \cup InlineKinds \cup {"root", "listItem"}

RECURSIVE StripInline(_)
RECURSIVE StripBlocks(_)
RECURSIVE StripItems(_)

WithChildren(node, kids) == [f \in DOMAIN node |->
                                IF f = "children" THEN kids ELSE node[f]]

StripInline(nodes) ==
    IF nodes = <<>> THEN <<>>
    ELSE LET n == Head(nodes)
         IN (IF n.type \notin InlineKinds THEN <<>>
             ELSE IF n.type \in {"strong", "emphasis", "link"} /\ Has(n, "children")
                  THEN <<WithChildren(n, StripInline(n.children))>>
                  ELSE <<n>>)
            \o StripInline(Tail(nodes))

StripItems(items) ==
    IF items = <<>> THEN <<>>
    ELSE LET n == Head(items)
         IN (IF n.type = "html" \/ n.type \notin KnownKinds THEN <<>>
             ELSE IF Has(n, "children")
                  THEN <<WithChildren(n, StripBlocks(n.children))>>
                  ELSE <<n>>)
            \o StripItems(Tail(items))

StripBlocks(nodes) ==
    IF nodes = <<>> THEN <<>>
    ELSE LET n == Head(nodes)
         IN (IF n.type \notin BlockKinds THEN <<>>
             ELSE IF ~Has(n, "children") THEN <<n>>
             ELSE IF n.type \in {"heading", "paragraph"}
                  THEN <<WithChildren(n, StripInline(n.children))>>
             ELSE IF n.type = "blockquote"
                  THEN <<WithChildren(n, StripBlocks(n.children))>>
             ELSE IF n.type = "list"
                  THEN <<WithChildren(n, StripItems(n.children))>>
                  ELSE <<n>>)
            \o StripBlocks(Tail(nodes))

StripUnrecognized(tree) ==
    IF tree.type = "root" THEN Root(StripBlocks(tree.children))
    ELSE Root(StripBlocks(<<tree>>))

----------------------------------------------------------------------------
(* Claims about normalizeAST, checked under SpecNormalize *)

\* C2: in the output of normalizeAST no two adjacent sibling blocks are both
\* of kind text, at any nesting level, also when unrecognised inline nodes
\* sit between the text nodes of the source.
C2_NoAdjacentText ==
    \A s \in SiblingSeqs(blocks) :
        \A i \in 1..(Len(s) - 1) :
            ~(s[i].type = "text" /\ s[i + 1].type = "text")

\* C2 witness: a paragraph whose text nodes are separated by an unrecognised
\* node has been normalised into a single text block.
C2_Witness ==
    /\ pc = "normalized"
    /\ ast = Root(<<Paragraph(<<Text(<<"a">>), Html, Text(<<"b">>)>>)>>)
    /\ blocks = <<[type |-> "paragraph",
                   children |-> <<TextBlock(<<"a", "b">>)>>]>>

\* C3 (as claimed): every Heading block produced by normalizeAST has a level
\* in 1..6, whatever the depth of the source node.
C3_HeadingLevelInRange ==
    \A b \in BlocksIn(blocks) :
        b.type = "heading" => Has(b, "level") /\ b.level \in 1..6

\* C7 (as claimed): normalizeAST returns for every syntax tree, malformed
\* ones included; it never raises.
C7_NeverRaises == pc # "error"

SourceBlocks(nodes) == SelectSeq(nodes, LAMBDA n : n.type \in BlockKinds)

\* the nodes normalizeAST walks: a root's children, or the node itself
SourceNodes(node) == IF node.type = "root" THEN node.children ELSE <<node>>

\* the List block carries the source's ordered flag and start index, and one
\* ListItem per source child
ListFaithful(list, block) ==
    /\ block.type = "list"
    /\ block.ordered = (IF Has(list, "ordered") THEN list.ordered ELSE FALSE)
    /\ block.start = (IF Has(list, "start") THEN list.start ELSE 1)
    /\ Len(block.children) = Len(ChildrenOrEmpty(list))
    /\ \A j \in 1..Len(block.children) :
          /\ block.children[j].type = "listItem"
          /\ block.children[j].children
                = normalizeAST(Root(ChildrenOrEmpty(list.children[j])))

RECURSIVE ListsFaithful(_, _)
ListsFaithful(nodes, bs) ==
    LET src == SourceBlocks(nodes)
    IN /\ Len(src) = Len(bs)
       /\ \A i \in 1..Len(src) :
             CASE src[i].type = "list" ->
                    /\ ListFaithful(src[i], bs[i])
                    /\ \A j \in 1..Len(bs[i].children) :
                          ListsFaithful(ChildrenOrEmpty(src[i].children[j]),
                                        bs[i].children[j].children)
               [] src[i].type = "blockquote" ->
                    ListsFaithful(ChildrenOrEmpty(src[i]), bs[i].children)
               [] OTHER -> TRUE

\* C11 (as claimed): every List block, at every depth, has the ordered flag
\* and the start index of its source list when the source has them (start 0
\* included), FALSE and 1 when it has not, and exactly one ListItem child
\* per child of the source list, in source order.
C11_ListMirrorsSource ==
    pc = "normalized" => ListsFaithful(SourceNodes(ast), blocks)

RECURSIVE NestedAgree(_, _)
NestedAgree(nodes, bs) ==
    LET src == SourceBlocks(nodes)
    IN /\ Len(src) = Len(bs)
       /\ \A i \in 1..Len(src) :
             CASE src[i].type = "blockquote" ->
                    /\ bs[i].children
                          = normalizeAST(Root(ChildrenOrEmpty(src[i])))
                    /\ NestedAgree(ChildrenOrEmpty(src[i]), bs[i].children)
               [] src[i].type = "list" ->
                    /\ Len(bs[i].children) = Len(ChildrenOrEmpty(src[i]))
                    /\ \A j \in 1..Len(bs[i].children) :
                          LET S == ChildrenOrEmpty(src[i].children[j])
                              kids == bs[i].children[j].children
                          IN /\ kids = normalizeAST(Root(S))
                             /\ NestedAgree(S, kids)
               [] OTHER -> TRUE

\* C19: at every nesting depth, the children of a Blockquote block and of a
\* ListItem block whose source children are S are normalizeAST of a root
\* whose children are S.
C19_NestedEqualsRoot ==
    pc = "normalized" => NestedAgree(SourceNodes(ast), blocks)

\* a blockquote holding a list whose item holds blocks again
C19_Witness ==
    /\ pc = "normalized"
    /\ Len(blocks) = 1
    /\ blocks[1].type = "blockquote"
    /\ Len(blocks[1].children) = 1
    /\ blocks[1].children[1].type = "list"
    /\ Len(blocks[1].children[1].children) >= 1
    /\ blocks[1].children[1].children[1].children # <<>>

----------------------------------------------------------------------------
(* renderMarkdownToImage *)

\* top-level nodes of the documents the parser returns
LongText == <<"a", "b", "c", "d", "e", "f", "g", "h", "i", "j", "k", "l">>

DocNodes ==
    {Paragraph(<<Text(<<"a">>)>>),
     Paragraph(<<Text(LongText)>>),
     Heading(1, <<Text(<<"a">>)>>),
     [type |-> "code", value |-> <<>>],
     [type |-> "code", value |-> <<"x", "\n", "y">>, lang |-> <<"j", "s">>],
     [type |-> "list", ordered |-> FALSE,
      children |-> <<[type |-> "listItem", children |-> <<Paragraph(<<Text(<<"a">>)>>)>>],
                     [type |-> "listItem", children |-> <<Code(<<"x">>)>>]>>],
     [type |-> "blockquote", children |-> <<Heading(2, <<Text(<<"a">>)>>)>>],
     [type |-> "thematicBreak"]}

ParsedTrees == {Root(k) : k \in SeqsUpTo(DocNodes, MaxBlocks)}

CustomTheme(padding, gap) ==
    [background |-> "#ffffff", text |-> "#1a1a1a", codeText |-> "#333333",
     spacing |-> [padding |-> padding, gap |-> gap,
                  blockquotePadding |-> 20, codePadding |-> 16]]

\* the options of a call, field by field; <<>> leaves the field undefined
HeightOptions == {<<>>, [height |-> 0], [height |-> 300], [height |-> 25000]}
WidthOptions == {<<>>, [maxWidth |-> 5], [maxWidth |-> 90], [width |-> 50]}
WatermarkOptions ==
    {<<>>, [watermark |-> [bool |-> FALSE]], [watermark |-> [enabled |-> FALSE]]}
ThemeOptions ==
    {<<>>, [theme |-> CustomTheme(200, -10)], [theme |-> CustomTheme(300, -50)],
     [theme |-> CustomTheme(9990, 24)]}

RenderOptions ==
    {DefaultOptions @@ h @@ w @@ m @@ t :
        h \in HeightOptions, w \in WidthOptions,
        m \in WatermarkOptions, t \in ThemeOptions}

\* the three formats, none, and strings outside the type as the command
\* line passes them on
FormatOptions ==
    {<<>>} \cup {[format |-> f] : f \in {"png", "svg", "base64", "jpeg", ""}}
OutputOptions == {<<>>, [output |-> "out.png"]}

\* input strings: a file path, or Markdown text
InputOptions == {[input |-> "doc.md"], [input |-> "# Title"]}

\* the calls of renderMarkdownToImage: options and what the world does
Calls ==
    {[options |-> o, env |-> DefaultEnv] : o \in RenderOptions}
    \cup {[options |-> i, env |-> [read |-> r] @@ DefaultEnv] :
            i \in InputOptions, r \in ReadOutcomes}
    \cup {[options |-> DefaultOptions @@ f @@ o,
            env |-> [sharp |-> e] @@ DefaultEnv] :
            f \in FormatOptions, o \in OutputOptions, e \in {"ok", "throws"}}
    \cup {[options |-> DefaultOptions, env |-> [shiki |-> h] @@ DefaultEnv] :
            h \in ShikiBehaviours}
    \cup {[options |-> DefaultOptions, env |-> [fonts |-> f] @@ DefaultEnv] :
            f \in {g \in FontEnvs :
                      /\ g.files["body"] = g.files["heading"]
                      /\ g.files["body"] = g.files["code"]
                      /\ g.fetch["googleBold"] = g.fetch["jsdelivrBold"]
                      /\ g.fetch["googleRegular"] = g.fetch["jsdelivrRegular"]}}

\* the input string taken as the Markdown whatever the read returned
InputAsMarkdown(input, read) == input

\* try { markdown = readFileSync(input) } catch { markdown = input }
LoadedMarkdown(input, read) == IF read.ok THEN read.data ELSE input

LoadMarkdown ==
    /\ pc = "load"
    /\ markdown' = <<LoadedMarkdown(options.input, env.read)>>
    /\ pc' = "parse"
    /\ steps' = Append(steps, "load")
    /\ UNCHANGED <<options, ast, blocks, idx, estimatedHeight, finalHeight,
                   satoriCalls, result, env, satoriFonts,
                   contentBlocks, jsxTree, sharpCalls, cli,
                   highlighters, createCalls, callers,
                   promiseAll>>

\* the three try { if (path) loaded.push(loadFont(...)) } catch { warn }
LocalFonts(files) == SelectSeq(FontSlots, LAMBDA n : files[n] = "loaded")

\* one try body: fetch and push the regular face, then the bold face
FetchPair(loaded, fetch, regular, bold) ==
    IF ~fetch[regular] THEN [loaded |-> loaded, raised |-> TRUE]
    ELSE IF ~fetch[bold]
         THEN [loaded |-> Append(loaded, regular), raised |-> TRUE]
         ELSE [loaded |-> loaded \o <<regular, bold>>, raised |-> FALSE]

\* the fallbacks: Google Fonts, and jsDelivr in its catch; raised = the
\* final throw new Error('No fonts available...')
loadFontsForSatori(fonts) ==
    LET local == LocalFonts(fonts.files)
    IN IF local # <<>> THEN [loaded |-> local, raised |-> FALSE]
       ELSE LET google == FetchPair(<<>>, fonts.fetch,
                                    "googleRegular", "googleBold")
            IN IF ~google.raised THEN google
               ELSE FetchPair(google.loaded, fonts.fetch,
                              "jsdelivrRegular", "jsdelivrBold")

\* const satoriFonts = await loadFontsForSatori(theme.fonts)
LoadFonts ==
    /\ pc = "normalized"
    /\ LET r == loadFontsForSatori(env.fonts)
       IN /\ satoriFonts' = r.loaded
          /\ pc' = IF r.raised THEN "error" ELSE "fonts"
    /\ steps' = Append(steps, "fonts")
    /\ UNCHANGED <<options, ast, blocks, idx, estimatedHeight, finalHeight,
                   satoriCalls, result, env, markdown,
                   contentBlocks, jsxTree, sharpCalls, cli,
                   highlighters, createCalls, callers,
                   promiseAll>>

\* a call of loadFontsForSatori under any behaviour of the font sources,
\* here inside the rendering of an empty document
InitFonts ==
    /\ options = DefaultOptions
    /\ pc = "normalized"
    /\ ast = Root(<<>>)
    /\ blocks = <<>>
    /\ idx = 0
    /\ estimatedHeight = NoNumber
    /\ finalHeight = <<>>
    /\ satoriCalls = <<>>
    /\ result = <<>>
    /\ steps = <<"load", "parse", "normalize">>
    /\ env \in {[fonts |-> f] @@ DefaultEnv : f \in FontEnvs}
    /\ markdown = <<FileText>>
    /\ satoriFonts = <<>>
    /\ contentBlocks = <<>>
    /\ jsxTree = <<>>
    /\ sharpCalls = <<>>
    /\ cli = NoCli
    /\ highlighters = NoHighlighters
    /\ createCalls = NoCreateCalls
    /\ callers = <<>>
    /\ promiseAll = NoPromiseAll

NextFonts == LoadFonts

SpecFonts == InitFonts /\ [][NextFonts]_vars

\* const ast = await parseMarkdown(markdown): the parser is external, its
\* result is any well-formed tree
ParseMarkdown ==
    /\ pc = "parse"
    /\ ast' \in ParsedTrees
    /\ pc' = "normalize"
    /\ steps' = Append(steps, "parse")
    /\ UNCHANGED <<options, blocks, idx, estimatedHeight, finalHeight,
                   satoriCalls, result, env, markdown,
                   satoriFonts, contentBlocks, jsxTree,
                   sharpCalls, cli, highlighters, createCalls,
                   callers, promiseAll>>

\* const contentBlocks = await Promise.all(blocks.map(block =>
\*     renderBlock(block, theme, maxContentWidth, themeMode)))
RenderBlocks ==
    /\ pc = "fonts"
    /\ contentBlocks' = RenderAll(blocks, ThemeOf(options),
                                  <<MaxContentWidth(options)>>,
                                  ThemeMode(options), env.shiki)
    /\ pc' = "rendered"
    /\ steps' = Append(steps, "render")
    /\ UNCHANGED <<options, ast, blocks, idx, estimatedHeight, finalHeight,
                   satoriCalls, result, env, markdown, satoriFonts,
                   jsxTree, sharpCalls, cli, highlighters,
                   createCalls, callers, promiseAll>>

\* blocks whose rendering nests: code inside list items and blockquotes,
\* lists inside list items
Item(kids) == [type |-> "listItem", children |-> kids]
CodeIn(v, lang) == [type |-> "code", value |-> v, lang |-> lang]

RenderNodes ==
    {CodeIn(<<"x", "\n", "y">>, Js),
     CodeIn(<<>>, Js),
     CodeIn(<<"x", "\n", "\n", "y">>, Zz),
     Code(<<"x", "\n">>),
     Paragraph(<<Text(<<"a">>),
                 [type |-> "strong", children |-> <<Text(<<"b">>)>>],
                 [type |-> "link", url |-> "u", children |-> <<Text(<<"c">>)>>]>>),
     [type |-> "list", ordered |-> TRUE, start |-> 9,
      children |-> <<Item(<<Paragraph(<<Text(<<"a">>)>>), CodeIn(<<"x">>, Zz)>>),
                     Item(<<[type |-> "list", ordered |-> FALSE,
                             children |-> <<Item(<<Paragraph(<<Text(<<"b">>)>>),
                                                   [type |-> "blockquote",
                                                    children |-> <<Code(<<"y">>)>>]>>)>>]>>)>>],
     [type |-> "blockquote",
      children |-> <<CodeIn(<<"a", "\n", "b">>, Js),
                     [type |-> "list", children |-> <<Item(<<CodeIn(<<"c">>, Zz)>>)>>],
                     [type |-> "thematicBreak"]>>],
     Heading(2, <<Text(<<"a">>), [type |-> "image", url |-> "u", alt |-> "i"]>>)}

RenderTrees == {Root(k) : k \in SeqsUpTo(RenderNodes, MaxBlocks)}

RenderCallOptions ==
    {DefaultOptions, DefaultOptions @@ [maxWidth |-> 90],
     DefaultOptions @@ [width |-> 80], DefaultOptions @@ [width |-> 50],
     DefaultOptions @@ [theme |-> [name |-> "dark"]]}

\* the rendering of the blocks of any document, under any behaviour of the
\* highlighter: the call has loaded its fonts
InitRender ==
    /\ options \in RenderCallOptions
    /\ pc = "fonts"
    /\ ast \in RenderTrees
    /\ blocks = normalizeAST(ast)
    /\ idx = 0
    /\ estimatedHeight = NoNumber
    /\ finalHeight = <<>>
    /\ satoriCalls = <<>>
    /\ result = <<>>
    /\ steps = <<"load", "parse", "normalize", "fonts">>
    /\ env \in {[shiki |-> h] @@ DefaultEnv : h \in ShikiBehaviours}
    /\ markdown = <<FileText>>
    /\ satoriFonts = FontSlots
    /\ contentBlocks = <<>>
    /\ jsxTree = <<>>
    /\ sharpCalls = <<>>
    /\ cli = NoCli
    /\ highlighters = NoHighlighters
    /\ createCalls = NoCreateCalls
    /\ callers = <<>>
    /\ promiseAll = NoPromiseAll

NextRender == RenderBlocks

SpecRender == InitRender /\ [][NextRender]_vars

\* top-level blocks with and without nested content: lists of 0 to 3 items,
\* items holding sub-lists and code, blockquotes holding headings
EstimateNodes ==
    {[type |-> "list", ordered |-> FALSE, children |-> <<>>],
     [type |-> "list", ordered |-> FALSE,
      children |-> <<Item(<<Paragraph(<<Text(<<"a">>)>>)>>)>>],
     [type |-> "list", ordered |-> FALSE,
      children |-> <<Item(<<Paragraph(<<Text(<<"a">>)>>),
                            [type |-> "list", ordered |-> TRUE, start |-> 1,
                             children |-> <<Item(<<Paragraph(<<Text(<<"b">>)>>)>>),
                                            Item(<<Code(<<"x", "\n", "y">>)>>)>>]>>)>>],
     [type |-> "list", ordered |-> TRUE, start |-> 1,
      children |-> <<Item(<<>>), Item(<<Code(<<"x", "\n", "y", "\n", "z">>)>>),
                     Item(<<Paragraph(<<Text(<<"c">>)>>)>>)>>],
     [type |-> "blockquote", children |-> <<>>],
     [type |-> "blockquote",
      children |-> <<Heading(1, <<Text(<<"a">>)>>),
                     Code(<<"x", "\n", "y">>)>>],
     Paragraph(<<Text(<<"a">>)>>),
     Paragraph(<<Text(<<"a", "b", "c", "d", "e", "f", "g", "h", "i", "j", "k", "l">>)>>),
     Heading(1, <<Text(<<"a">>)>>),
     Heading(3, <<>>),
     Code(<<"x", "\n", "y">>),
     [type |-> "thematicBreak"]}

EstimateTrees == {Root(k) : k \in SeqsUpTo(EstimateNodes, MaxBlocks)}

EstimateCallOptions ==
    {DefaultOptions, DefaultOptions @@ [maxWidth |-> 90],
     DefaultOptions @@ [maxWidth |-> 5],
     DefaultOptions @@ [watermark |-> [bool |-> FALSE]],
     DefaultOptions @@ [theme |-> [name |-> "dark"]],
     DefaultOptions @@ [theme |-> [background |-> "#ffffff", text |-> "#1a1a1a",
                                   codeText |-> "#333333",
                                   spacing |-> [padding |-> 200, gap |-> 10,
                                                blockquotePadding |-> 20,
                                                codePadding |-> 16]]]}

\* the height estimate of any document: the call has built its visual blocks
\* and was given no height
InitEstimate ==
    /\ options \in EstimateCallOptions
    /\ pc = "rendered"
    /\ ast \in EstimateTrees
    /\ blocks = normalizeAST(ast)
    /\ idx = 0
    /\ estimatedHeight = NoNumber
    /\ finalHeight = <<>>
    /\ satoriCalls = <<>>
    /\ result = <<>>
    /\ steps = <<"load", "parse", "normalize", "fonts", "render">>
    /\ env = DefaultEnv
    /\ markdown = <<FileText>>
    /\ satoriFonts = FontSlots
    /\ contentBlocks = RenderAll(blocks, ThemeOf(options),
                                 <<MaxContentWidth(options)>>,
                                 ThemeMode(options), env.shiki)
    /\ jsxTree = <<>>
    /\ sharpCalls = <<>>
    /\ cli = NoCli
    /\ highlighters = NoHighlighters
    /\ createCalls = NoCreateCalls
    /\ callers = <<>>
    /\ promiseAll = NoPromiseAll

\* if (options.height): the height is used directly and handed to satori
UseGivenHeight ==
    /\ pc = "rendered"
    /\ HeightGiven(options)
    /\ finalHeight' = <<options.height>>
    /\ jsxTree' = <<createJsxTree(options.height, contentBlocks,
                        normalizeWatermark(options, ThemeOf(options)),
                        Width(options), ThemeOf(options))>>
    /\ satoriCalls' = Append(satoriCalls, options.height)
    /\ pc' = "format"
    /\ steps' = Append(steps, "satori")
    /\ UNCHANGED <<options, ast, blocks, idx, estimatedHeight, result, env,
                   markdown, satoriFonts, contentBlocks, sharpCalls,
                   cli, highlighters, createCalls, callers,
                   promiseAll>>

\* else: let estimatedHeight = padding * 2, before the loop
StartEstimate ==
    /\ pc = "rendered"
    /\ ~HeightGiven(options)
    /\ estimatedHeight' = StartHeight(ThemeOf(options))
    /\ idx' = 1
    /\ pc' = "estimate"
    /\ steps' = Append(steps, "estimate")
    /\ UNCHANGED <<options, ast, blocks, finalHeight, satoriCalls, result, env,
                   markdown, satoriFonts, contentBlocks,
                   jsxTree, sharpCalls, cli, highlighters,
                   createCalls, callers, promiseAll>>

\* one iteration of for (const block of blocks)
EstimateBlock ==
    /\ pc = "estimate"
    /\ idx <= Len(blocks)
    /\ estimatedHeight' =
          AddIncrement(estimatedHeight,
              BlockIncrement(blocks[idx], MaxContentWidth(options), ThemeOf(options)))
    /\ idx' = idx + 1
    /\ UNCHANGED <<options, pc, ast, blocks, finalHeight, satoriCalls, result, steps,
                   env, markdown, satoriFonts, contentBlocks,
                   jsxTree, sharpCalls, cli, highlighters,
                   createCalls, callers, promiseAll>>

\* after the loop: the watermark reserve, the bounds, and the call of satori
CommitEstimate ==
    /\ pc = "estimate"
    /\ idx > Len(blocks)
    /\ LET total == AddWatermark(estimatedHeight,
                        normalizeWatermark(options, ThemeOf(options)))
       IN /\ estimatedHeight' = total
          /\ finalHeight' = <<ClampHeight(total)>>
          /\ jsxTree' = <<createJsxTree(ClampHeight(total), contentBlocks,
                              normalizeWatermark(options, ThemeOf(options)),
                              Width(options), ThemeOf(options))>>
          /\ satoriCalls' = Append(satoriCalls, ClampHeight(total))
    /\ pc' = "format"
    /\ steps' = Append(steps, "satori")
    /\ UNCHANGED <<options, ast, blocks, idx, result, env, markdown, satoriFonts,
                   contentBlocks, sharpCalls, cli, highlighters,
                   createCalls, callers, promiseAll>>

\* the output format: for 'svg' the vector text is returned; otherwise sharp
\* encodes it (a failure of sharp is the call's error), and for neither
\* 'svg' nor 'base64' sharp also writes options.output when it is given
ReturnResult ==
    /\ pc = "format"
    /\ IF Format(options) = "svg"
       THEN /\ result' = <<FormatResult("svg", Width(options), finalHeight[1])>>
            /\ pc' = "done"
            /\ UNCHANGED <<sharpCalls, steps>>
       ELSE /\ steps' = Append(steps, "sharp")
            /\ IF env.sharp # "ok"
               THEN /\ sharpCalls' = Append(sharpCalls, "toBuffer")
                    /\ pc' = "error"
                    /\ UNCHANGED result
               ELSE /\ sharpCalls' =
                         IF Format(options) # "base64" /\ Has(options, "output")
                            /\ options.output # ""
                         THEN sharpCalls \o <<"toBuffer", "toFile">>
                         ELSE Append(sharpCalls, "toBuffer")
                    /\ result' = <<FormatResult(Format(options), Width(options),
                                                finalHeight[1])>>
                    /\ pc' = "done"
    /\ UNCHANGED <<options, ast, blocks, idx, estimatedHeight, finalHeight,
                   satoriCalls, env, markdown, satoriFonts, contentBlocks,
                   jsxTree, cli, highlighters, createCalls, callers,
                   promiseAll>>

Init ==
    /\ \E c \in Calls : options = c.options /\ env = c.env
    /\ pc = "load"
    /\ ast = Root(<<>>)
    /\ blocks = <<>>
    /\ idx = 0
    /\ estimatedHeight = NoNumber
    /\ finalHeight = <<>>
    /\ satoriCalls = <<>>
    /\ result = <<>>
    /\ steps = <<>>
    /\ markdown = <<>>
    /\ satoriFonts = <<>>
    /\ contentBlocks = <<>>
    /\ jsxTree = <<>>
    /\ sharpCalls = <<>>
    /\ cli = NoCli
    /\ highlighters = NoHighlighters
    /\ createCalls = NoCreateCalls
    /\ callers = <<>>
    /\ promiseAll = NoPromiseAll

Next ==
    \/ LoadMarkdown
    \/ ParseMarkdown
    \/ Normalize
    \/ LoadFonts
    \/ RenderBlocks
    \/ UseGivenHeight
    \/ StartEstimate
    \/ EstimateBlock
    \/ CommitEstimate
    \/ ReturnResult

Spec == Init /\ [][Next]_vars

NextEstimate == StartEstimate \/ EstimateBlock \/ CommitEstimate

SpecEstimate == InitEstimate /\ [][NextEstimate]_vars

----------------------------------------------------------------------------
(* Claims about the height decision, checked under Spec *)

theme == ThemeOf(options)
maxContentWidth == MaxContentWidth(options)
watermark == normalizeWatermark(options, theme)

AutoMode == ~HeightGiven(options)

\* C1: in auto mode the height returned by renderMarkdownToImage is a whole
\* number in [400, 20000], for every block sequence, content width (also
\* under 9 px, where the characters-per-line is 0) and watermark setting.
C1_AutoHeightInRange ==
    (pc = "done" /\ AutoMode) =>
        /\ result[1].height \in MinCanvasHeight..MaxCanvasHeight
        /\ satoriCalls = <<result[1].height>>

\* C1 witness: a paragraph estimated at a content width under 9 px, where the
\* running total is Infinity, has been returned with the greatest height.
C1_Witness ==
    /\ pc = "done" /\ AutoMode
    /\ maxContentWidth \in 0..8
    /\ \E i \in 1..Len(blocks) : blocks[i].type = "paragraph"
    /\ estimatedHeight.inf
    /\ result[1].height = MaxCanvasHeight

\* C4 (as claimed): for every height the caller supplies, 0 included, the
\* estimator is not run and the height handed to the vector renderer and the
\* height of the result are the supplied value.
C4_GivenHeightVerbatim ==
    (pc = "done" /\ Has(options, "height")) =>
        /\ \A i \in 1..Len(steps) : steps[i] # "estimate"
        /\ satoriCalls = <<options.height>>
        /\ result[1].height = options.height

\* C5 (as claimed): the auto-mode height with a watermark present is the
\* height of the same document without a watermark plus exactly 40.
C5_WatermarkAddsExactly40 ==
    (pc = "done" /\ AutoMode /\ watermark # <<>>) =>
        result[1].height = AutoHeight(blocks, maxContentWidth, theme, <<>>) + 40

NoTopLevelHeading(bs) == \A i \in 1..Len(bs) : bs[i].type # "heading"

\* C5 (amended): the auto-mode height with a watermark present is never less
\* than the height of the same document without a watermark and at most 40
\* more; it is exactly 40 more when the document has no top-level heading and
\* the total accumulated without the watermark lies in [400, 19960], where the
\* bounds 400 and 20000 do not take part.
C5_WatermarkReserveUpToClamp ==
    (pc = "done" /\ AutoMode /\ watermark # <<>>) =>
        LET without == AutoHeight(blocks, maxContentWidth, theme, <<>>)
            total == AccumulateHeight(blocks, StartHeight(theme), maxContentWidth, theme)
        IN /\ result[1].height >= without
           /\ result[1].height <= without + WatermarkReserve
           /\ (/\ NoTopLevelHeading(blocks)
               /\ ~total.inf
               /\ total.tenths >= MinCanvasHeight * 10
               /\ total.tenths <= (MaxCanvasHeight - WatermarkReserve) * 10)
              => result[1].height = without + WatermarkReserve

\* C5 witness: a document without heading whose total lies inside the bounds
\* has been returned 40 higher than it is without the watermark.
C5_Witness ==
    /\ pc = "done" /\ AutoMode /\ watermark # <<>>
    /\ blocks # <<>> /\ NoTopLevelHeading(blocks)
    /\ result[1].height > MinCanvasHeight
    /\ result[1].height < MaxCanvasHeight
    /\ result[1].height = AutoHeight(blocks, maxContentWidth, theme, <<>>) + 40

\* a document of one or more identical paragraphs
Homogeneous(bs) ==
    /\ bs # <<>>
    /\ \A i \in 1..Len(bs) : bs[i].type = "paragraph" /\ bs[i] = bs[1]

\* C6 (as claimed): for every theme, whatever spacing it carries, the
\* estimate for n+1 identical paragraphs is at least the estimate for n.
C6_MonotoneEveryTheme ==
    (pc = "done" /\ AutoMode /\ Homogeneous(blocks)) =>
        result[1].height >= AutoHeight(Tail(blocks), maxContentWidth, theme, watermark)

\* C6 (amended): for every theme whose gap is at least -24, the estimate for
\* n+1 identical paragraphs is at least the estimate for n.
C6_MonotoneGapBounded ==
    (pc = "done" /\ AutoMode /\ Homogeneous(blocks) /\ theme.spacing.gap >= -24) =>
        result[1].height >= AutoHeight(Tail(blocks), maxContentWidth, theme, watermark)

\* C6 witness: under a negative gap no less than -24, two identical
\* paragraphs have been estimated strictly higher than one.
C6_Witness ==
    /\ pc = "done" /\ AutoMode /\ Homogeneous(blocks) /\ Len(blocks) >= 2
    /\ theme.spacing.gap \in -24..-1
    /\ result[1].height > AutoHeight(Tail(blocks), maxContentWidth, theme, watermark)

RECURSIVE CharacterCount(_)

\* the characters of the text a block shows: its own content and its children's
CharacterCount(block) ==
    (IF Has(block, "content") THEN Len(block.content) ELSE 0)
    + (IF Has(block, "children") /\ block.children # <<>>
       THEN CharacterCount(Head(block.children))
            + CharacterCount([type |-> block.type, children |-> Tail(block.children)])
       ELSE 0)

\* C9 (as claimed): for a top-level paragraph the estimator adds
\* lineCount * 24 + gap, with lineCount = max(1, ceil(characterCount /
\* floor(contentWidthPx / 9))) taken from the paragraph's character count.
C9_ParagraphLinesFromCharacters ==
    [][(pc = "estimate" /\ idx <= Len(blocks) /\ idx' = idx + 1
            /\ blocks[idx].type = "paragraph")
        => LET lineCount == ParagraphLines(CharacterCount(blocks[idx]),
                                CharsPerLine(maxContentWidth))
           IN estimatedHeight' =
                AddIncrement(estimatedHeight,
                    IF lineCount.inf THEN Infinity
                    ELSE Px(lineCount.tenths * 24 + theme.spacing.gap))]_vars

\* C10 (as claimed): for a top-level code block, one with empty content
\* included, the estimator adds (number of newline-separated lines of the
\* content) * 20 + 2 * codePadding + gap to the running total.
C10_CodeBlockLines ==
    [][(pc = "estimate" /\ idx <= Len(blocks) /\ idx' = idx + 1
            /\ blocks[idx].type = "code" /\ Has(blocks[idx], "content"))
        => estimatedHeight' =
             AddIncrement(estimatedHeight,
                Px(SplitLength(blocks[idx].content) * 20
                   + 2 * theme.spacing.codePadding + theme.spacing.gap))]_vars

----------------------------------------------------------------------------
(* Claims about the steps around the estimator, checked under Spec *)

\* C15: a failed read of the input as a file path is never an error of the
\* call: the input string itself is the Markdown; after a successful read
\* the file's text is.
C15_ReadFailureFallsBack ==
    pc # "load" =>
        /\ markdown = <<IF env.read.ok THEN env.read.data ELSE options.input>>
        /\ (steps = <<"load">> => pc = "parse")

\* a call whose input is no readable file runs to its result
C15_Witness ==
    /\ pc = "done"
    /\ ~env.read.ok
    /\ markdown = <<options.input>>
    /\ result # <<>>

\* C17 (as claimed): loadFontsForSatori raises only when it has obtained no
\* font at all; whenever a configured font file was loaded or a font was
\* fetched from a fallback source it returns a non-empty list.
C17_AbortsOnlyWithoutAnyFont ==
    /\ pc = "error" => satoriFonts = <<>>
    /\ pc = "fonts" => satoriFonts # <<>>

----------------------------------------------------------------------------
(* Claims about the visual nodes, checked under SpecRender *)

RECURSIVE CodePairs(_, _)
\* every code block of the forest bs, at every depth, with its visual node
CodePairs(bs, nodes) ==
    UNION {CASE bs[i].type = "code" -> {<<bs[i], nodes[i]>>}
             [] bs[i].type = "blockquote" ->
                    CodePairs(bs[i].children, nodes[i].children)
             [] bs[i].type = "list" ->
                    UNION {CodePairs(bs[i].children[j].children,
                                     nodes[i].children[j].children[2].children) :
                             j \in 1..Len(bs[i].children)}
             [] OTHER -> {} :
           i \in 1..Len(bs)}

\* initHighlighter rejects, or codeToTokens throws for the block's language
HighlighterFails(block) ==
    /\ Has(block, "language")
    /\ \/ ~env.shiki[ThemeMode(options)].init
       \/ block.language \notin env.shiki[ThemeMode(options)].langs

RECURSIVE JoinLines(_)
\* the texts of the line nodes joined by newlines
JoinLines(lines) ==
    IF Len(lines) = 1 THEN lines[1].children[1].children[1].string
    ELSE lines[1].children[1].children[1].string \o <<"\n">>
            \o JoinLines(Tail(lines))

\* one span in the default colour, with text free of newlines
PlainLine(line, color) ==
    /\ line.type = "div"
    /\ Len(line.children) = 1
    /\ line.children[1].type = "span"
    /\ line.children[1].style = [color |-> color]
    /\ Len(line.children[1].children) = 1
    /\ CountNewlines(line.children[1].children[1].string) = 0

\* C12: when the highlighter fails for a code block (it cannot be
\* initialised, or it rejects the language) the rendering still completes,
\* and the block's visual node has exactly one plain line in the default
\* code colour per newline-separated line of the content.
C12_HighlighterFailureFallsBack ==
    /\ pc # "error"
    /\ pc = "rendered" =>
         \A p \in CodePairs(blocks, contentBlocks) :
            HighlighterFails(p[1]) =>
               /\ Len(p[2].children) = SplitLength(ContentOrEmpty(p[1]))
               /\ \A i \in 1..Len(p[2].children) :
                     PlainLine(p[2].children[i], ThemeOf(options).codeText)
               /\ JoinLines(p[2].children) = ContentOrEmpty(p[1])

\* a code block of three lines in an unknown language, and one whose
\* highlighter could not be initialised
C12_Witness ==
    /\ pc = "rendered"
    /\ \E p \in CodePairs(blocks, contentBlocks) :
          /\ HighlighterFails(p[1])
          /\ Len(p[2].children) = 3
    /\ \E p \in CodePairs(blocks, contentBlocks) :
          /\ ~env.shiki[ThemeMode(options)].init
          /\ HighlighterFails(p[1])
          /\ Len(p[2].children) = 2

RECURSIVE Descendants(_)
\* the visual nodes below node, at every depth
Descendants(node) ==
    IF ~Has(node, "children") THEN {}
    ELSE UNION {{node.children[i]} \cup Descendants(node.children[i]) :
                  i \in 1..Len(node.children)}

\* every visual node of the call
VisualNodes ==
    UNION {{contentBlocks[i]} \cup Descendants(contentBlocks[i]) :
             i \in 1..Len(contentBlocks)}

\* the nodes renderListItem returns are the ones with flex: 1
ItemNodes == {n \in VisualNodes : Has(n, "style") /\ Has(n.style, "flex")}

\* the nodes of blocks carry a max width
HasMaxWidth(n) == Has(n, "style") /\ Has(n.style, "maxWidth")

\* C20 (as claimed): when a max content width is threaded down, every block
\* rendered inside a list item, at every depth, has a max width no greater
\* than the narrowed width of that list item (the item's maxWidth - 30).
C20_ItemChildrenNarrowed ==
    (pc = "rendered" /\ MaxContentWidth(options) # 0) =>
        \A item \in ItemNodes :
            \A d \in {n \in Descendants(item) : HasMaxWidth(n)} :
                /\ Has(item.style.maxWidth, "px")
                /\ Has(d.style.maxWidth, "px")
                /\ d.style.maxWidth.px <= item.style.maxWidth.px

----------------------------------------------------------------------------
(* Claims about the root node and the result, checked under Spec *)

\* the overlay renderWatermark returns is among the root's children
WatermarkNodeInTree ==
    \E i \in 1..Len(jsxTree[1].children) :
        /\ Has(jsxTree[1].children[i], "style")
        /\ Has(jsxTree[1].children[i].style, "position")
        /\ jsxTree[1].children[i].style.position = "absolute"

\* C18 (as claimed): in auto mode the 40 px reserve is added exactly when a
\* watermark node is part of the visual tree; with watermark false and with
\* a configuration whose enabled is false no reserve is added.
C18_ReserveIffWatermarkNode ==
    (pc = "done" /\ AutoMode) =>
        LET total == AccumulateHeight(blocks, StartHeight(theme),
                                      maxContentWidth, theme)
        IN estimatedHeight =
             IF WatermarkNodeInTree
             THEN AddIncrement(total, Px(WatermarkReserve)) ELSE total

\* C14: a successful result carries exactly one of svg, buffer, base64: svg
\* for 'svg', base64 for 'base64', buffer for 'png' and for no format; the
\* raster encoder is called only when the format is not 'svg'.
C14_OneOutputPerFormat ==
    /\ (pc = "done") =>
          /\ Cardinality(DOMAIN result[1] \cap {"svg", "buffer", "base64"}) = 1
          /\ (Has(options, "format") /\ options.format = "svg")
                => Has(result[1], "svg")
          /\ (Has(options, "format") /\ options.format = "base64")
                => Has(result[1], "base64")
          /\ (~Has(options, "format") \/ options.format = "png")
                => Has(result[1], "buffer")
    /\ sharpCalls # <<>> => ~(Has(options, "format") /\ options.format = "svg")

\* a base64 result, produced by one call of the encoder although an output
\* path was given
C14_Witness ==
    /\ pc = "done"
    /\ Has(options, "format") /\ options.format = "base64"
    /\ Has(options, "output")
    /\ Has(result[1], "base64")
    /\ sharpCalls = <<"toBuffer">>

----------------------------------------------------------------------------
(* cli: the action of the md-to-image command *)

DigitChars == <<"0", "1", "2", "3", "4", "5", "6", "7", "8", "9">>
IsDigit(c) == \E i \in 1..10 : DigitChars[i] = c
DigitValue(c) == (CHOOSE i \in 1..10 : DigitChars[i] = c) - 1

RECURSIVE DigitPrefix(_, _)
\* the value of the longest prefix of digits of s, after the digits read as acc
DigitPrefix(s, acc) ==
    IF s = <<>> \/ ~IsDigit(Head(s)) THEN acc
    ELSE DigitPrefix(Tail(s), acc * 10 + DigitValue(Head(s)))

\* parseInt(s, 10): <<>> for NaN, else <<n>>; the text after the digits is
\* ignored
ParseInt(s) ==
    IF s # <<>> /\ Head(s) = "-"
    THEN IF Len(s) > 1 /\ IsDigit(s[2]) THEN <<0 - DigitPrefix(Tail(s), 0)>>
         ELSE <<>>
    ELSE IF s # <<>> /\ IsDigit(Head(s)) THEN <<DigitPrefix(s, 0)>>
    ELSE <<>>

RECURSIVE NumberPrefix(_, _)
\* the longest prefix of s that reads as digits with at most one point
NumberPrefix(s, pointSeen) ==
    IF s = <<>> THEN <<>>
    ELSE IF IsDigit(Head(s))
         THEN <<Head(s)>> \o NumberPrefix(Tail(s), pointSeen)
    ELSE IF Head(s) = "." /\ ~pointSeen
         THEN <<".">> \o NumberPrefix(Tail(s), TRUE)
    ELSE <<>>

\* parseFloat(s): <<>> for NaN, else <<the numeral read>>
ParseFloat(s) ==
    LET p == NumberPrefix(s, FALSE)
    IN IF \E i \in 1..Len(p) : IsDigit(p[i]) THEN <<p>> ELSE <<>>

\* a number-valued option: NaN leaves the field out of the record, as the
\* renderer reads width, height and maxWidth through `||` and `if` only
NumberField(name, parsed) ==
    IF parsed = <<>> THEN <<>> ELSE [f \in {name} |-> parsed[1]]

\* a flag the user gave (or that has a default) with a non-empty value
Given(argv, flag) == Has(argv, flag) /\ argv[flag] # <<>>

\* the renderOptions the action builds from the parsed flags
CliOptions(argv) ==
    [input |-> argv.input, output |-> argv.output,
     format |-> argv.format, theme |-> [name |-> argv.theme]]
    @@ NumberField("width", ParseInt(argv.width))
    @@ (IF Given(argv, "height")
        THEN NumberField("height", ParseInt(argv.height)) ELSE <<>>)
    @@ (IF Given(argv, "maxWidth")
        THEN NumberField("maxWidth", ParseInt(argv.maxWidth)) ELSE <<>>)
    @@ (IF ~argv.watermark THEN [watermark |-> [bool |-> FALSE]]
        ELSE IF Given(argv, "watermarkOpacity")
             THEN [watermark |->
                     [opacity |-> ParseFloat(argv.watermarkOpacity)]]
             ELSE <<>>)

\* the defaults commander fills in
DefaultArgv ==
    [input |-> "doc.md", output |-> "output.png",
     width |-> <<"1", "2", "0", "0">>, theme |-> "light", format |-> "png",
     watermark |-> TRUE, watermarkOpacity |-> <<"0", ".", "3">>]

\* command lines: each flag well-formed and malformed
CliArgvs ==
    {DefaultArgv}
    \cup {[width |-> w] @@ DefaultArgv :
            w \in {<<"8", "0", "0">>, <<"a", "b", "c">>, <<"1", "2", "p", "x">>}}
    \cup {[height |-> h] @@ DefaultArgv :
            h \in {<<"3", "0", "0">>, <<"t", "a", "l", "l">>}}
    \cup {[maxWidth |-> m] @@ DefaultArgv :
            m \in {<<"9", "0">>, <<"w", "i", "d", "e">>}}
    \cup {[watermarkOpacity |-> o] @@ DefaultArgv :
            o \in {<<"0", ".", "5">>, <<"h", "a", "l", "f">>}}
    \cup {[watermark |-> FALSE] @@ DefaultArgv,
          [format |-> "svg"] @@ DefaultArgv,
          [format |-> "base64"] @@ DefaultArgv}

\* .action(async (input, options) => { ... renderMarkdownToImage(renderOptions)
CliStart ==
    /\ pc = "cli"
    /\ options' = CliOptions(cli.argv)
    /\ pc' = "load"
    /\ UNCHANGED <<ast, blocks, idx, estimatedHeight, finalHeight, satoriCalls,
                   result, steps, env, markdown, satoriFonts, contentBlocks,
                   jsxTree, sharpCalls, cli, highlighters,
                   createCalls, callers, promiseAll>>

\* after the await: the message on stdout, or catch: 'Error:' and exit(1)
CliFinish ==
    /\ pc \in {"done", "error"}
    /\ cli.exit = <<>>
    /\ cli' = IF pc = "error"
              THEN [cli EXCEPT !.out = <<"Error:">>, !.exit = <<1>>]
              ELSE [cli EXCEPT
                      !.out = IF cli.argv.format = "base64" THEN <<"base64">>
                              ELSE IF cli.argv.format = "svg"
                                      /\ Has(result[1], "svg")
                                   THEN <<"SVG saved to">>
                                   ELSE <<"Image saved to">>,
                      !.exit = <<0>>]
    /\ pc' = "exit"
    /\ UNCHANGED <<options, ast, blocks, idx, estimatedHeight, finalHeight,
                   satoriCalls, result, steps, env, markdown, satoriFonts,
                   contentBlocks, jsxTree, sharpCalls, highlighters,
                   createCalls, callers, promiseAll>>

InitCli ==
    /\ options = <<>>
    /\ pc = "cli"
    /\ ast = Root(<<>>)
    /\ blocks = <<>>
    /\ idx = 0
    /\ estimatedHeight = NoNumber
    /\ finalHeight = <<>>
    /\ satoriCalls = <<>>
    /\ result = <<>>
    /\ steps = <<>>
    /\ env \in {DefaultEnv, [sharp |-> "throws"] @@ DefaultEnv}
    /\ markdown = <<>>
    /\ satoriFonts = <<>>
    /\ contentBlocks = <<>>
    /\ jsxTree = <<>>
    /\ sharpCalls = <<>>
    /\ \E a \in CliArgvs : cli = [argv |-> a, out |-> <<>>, exit |-> <<>>]
    /\ highlighters = NoHighlighters
    /\ createCalls = NoCreateCalls
    /\ callers = <<>>
    /\ promiseAll = NoPromiseAll

NextCli ==
    \/ CliStart
    \/ Next
    \/ CliFinish

SpecCli == InitCli /\ [][NextCli]_vars

\* the value of a numeric flag reads as a number from end to end
IsNumber(s) ==
    /\ s # <<>>
    /\ \A i \in 1..Len(s) : IsDigit(s[i]) \/ s[i] = "."
    /\ \E i \in 1..Len(s) : IsDigit(s[i])

Malformed(argv) ==
    \E f \in {"width", "height", "maxWidth", "watermarkOpacity"} :
        Given(argv, f) /\ ~IsNumber(argv[f])

\* C16 (as claimed): a malformed numeric flag (--width, --height,
\* --max-width, --watermark-opacity that is not a number) is reported as an
\* error before any parsing, font loading or rendering is done; it is never
\* replaced by a default and rendered.
C16_MalformedFlagReported ==
    Malformed(cli.argv) =>
        /\ steps = <<>>
        /\ result = <<>>
        /\ cli.exit # <<>> => cli.exit = <<1>>

----------------------------------------------------------------------------
(* highlighter: initHighlighter under concurrent callers *)

\* JavaScript runs a function up to its next await without interruption:
\* one call of initHighlighter is one step, the settling of the promise of
\* createHighlighter is another, and a caller resumes in a third.

Callers == 1..MaxCallers

\* a check of the instance alone, without the cached promise
ShouldCreateUncached(module) == TRUE

\* if (!highlighterLightPromise), reached when the instance is not yet set
ShouldCreate(module) == module.promise = <<>>

\* the instance the n-th invocation of createHighlighter for a mode makes
Instance(mode, n) == [mode |-> mode, n |-> n]

\* a caller (tokenizeCode, or any importer) calls initHighlighter(mode) and
\* awaits what it returns: the instance, or the cached promise
CallInit(c, mode) ==
    /\ callers[c].state = "idle"
    /\ callers[c].calls < MaxCalls
    /\ LET module == highlighters[mode]
       IN IF module.highlighter # <<>>
          THEN /\ callers' = [callers EXCEPT ![c] =
                     [@ EXCEPT !.state = "awaiting", !.mode = mode,
                               !.calls = @ + 1,
                               !.awaits = [instance |-> module.highlighter[1]]]]
               /\ UNCHANGED <<highlighters, createCalls>>
          ELSE /\ callers' = [callers EXCEPT ![c] =
                     [@ EXCEPT !.state = "awaiting", !.mode = mode,
                               !.calls = @ + 1,
                               !.awaits = [promise |-> mode,
                                           settled |-> module.promise # <<>> /\
                                              module.promise[1].state # "pending"]]]
               /\ IF ShouldCreate(module)
                  THEN /\ createCalls' = [createCalls EXCEPT ![mode] = @ + 1]
                       /\ highlighters' = [highlighters EXCEPT ![mode].promise =
                             <<[state |-> "pending",
                                value |-> Instance(mode, createCalls[mode] + 1)]>>]
                  ELSE UNCHANGED <<highlighters, createCalls>>
    /\ UNCHANGED <<options, pc, ast, blocks, idx, estimatedHeight, finalHeight,
                   satoriCalls, result, steps, env, markdown, satoriFonts,
                   contentBlocks, jsxTree, sharpCalls, cli,
                   promiseAll>>

\* a first rejection that is not kept: createHighlighter is invoked once more
SettleRetries(mode) ==
    /\ highlighters[mode].promise # <<>>
    /\ highlighters[mode].promise[1].state = "pending"
    /\ \E ok \in BOOLEAN :
          IF ok
          THEN /\ highlighters' = [highlighters EXCEPT ![mode] =
                     [highlighter |-> <<@.promise[1].value>>,
                      promise |-> <<[@.promise[1] EXCEPT !.state = "fulfilled"]>>]]
               /\ UNCHANGED createCalls
          ELSE IF createCalls[mode] = 1
          THEN /\ createCalls' = [createCalls EXCEPT ![mode] = @ + 1]
               /\ highlighters' = [highlighters EXCEPT ![mode].promise =
                     <<[state |-> "pending",
                        value |-> [mode |-> mode, n |-> createCalls[mode] + 1]]>>]
          ELSE /\ highlighters' = [highlighters EXCEPT ![mode].promise =
                     <<[@[1] EXCEPT !.state = "rejected"]>>]
               /\ UNCHANGED createCalls
    /\ UNCHANGED <<options, pc, ast, blocks, idx, estimatedHeight, finalHeight,
                   satoriCalls, result, steps, env, markdown, satoriFonts,
                   contentBlocks, jsxTree, sharpCalls, cli, callers, promiseAll>>

\* the code and language of the callers' tokenizeCode calls
CallerCode == <<"x", "\n", "y">>

\* what tokenizeCode returns once its await of initHighlighter(mode) has
\* completed: the tokens of codeToTokens, or the catch's plain lines
TokensAfterInit(mode, fulfilled) ==
    tokenizeCode(CallerCode, <<Js>>, mode, Shiki(fulfilled, {Js})).tokens

\* createHighlighter(...) settles: .then(hl => { highlighterLight = hl;
\* return hl }), or the rejection, which stays in the cached promise
Settle(mode) ==
    /\ highlighters[mode].promise # <<>>
    /\ highlighters[mode].promise[1].state = "pending"
    /\ \E ok \in BOOLEAN :
          highlighters' = [highlighters EXCEPT ![mode] =
              IF ok
              THEN [highlighter |-> <<@.promise[1].value>>,
                    promise |-> <<[@.promise[1] EXCEPT !.state = "fulfilled"]>>]
              ELSE [highlighter |-> <<>>,
                    promise |-> <<[@.promise[1] EXCEPT !.state = "rejected"]>>]]
    /\ UNCHANGED <<options, pc, ast, blocks, idx, estimatedHeight, finalHeight,
                   satoriCalls, result, steps, env, markdown, satoriFonts,
                   contentBlocks, jsxTree, sharpCalls, cli, createCalls, callers,
                   promiseAll>>

\* the caller's await completes with the instance, or with the rejection
Resume(c) ==
    /\ callers[c].state = "awaiting"
    /\ LET a == callers[c].awaits
           p == highlighters[callers[c].mode].promise[1]
       IN IF Has(a, "instance")
          THEN callers' = [callers EXCEPT ![c] =
                  [@ EXCEPT !.state = "idle",
                            !.received = @ \cup
                               {[instance |-> a.instance, waited |-> FALSE,
                                 tokens |-> TokensAfterInit(callers[c].mode,
                                                            TRUE)]}]]
          ELSE /\ p.state # "pending"
               /\ callers' = [callers EXCEPT ![c] =
                     [@ EXCEPT !.state = "idle",
                               !.received = @ \cup
                                  {IF p.state = "fulfilled"
                                   THEN [instance |-> p.value, waited |-> TRUE,
                                         tokens |-> TokensAfterInit(
                                                      callers[c].mode, TRUE)]
                                   ELSE [rejected |-> callers[c].mode,
                                         waited |-> ~a.settled,
                                         tokens |-> TokensAfterInit(
                                                      callers[c].mode, FALSE)]}]]
    /\ UNCHANGED <<options, pc, ast, blocks, idx, estimatedHeight, finalHeight,
                   satoriCalls, result, steps, env, markdown, satoriFonts,
                   contentBlocks, jsxTree, sharpCalls, cli, highlighters,
                   createCalls, promiseAll>>

\* the blocks of a document are about to be rendered concurrently
InitHighlighter ==
    /\ options = DefaultOptions
    /\ pc = "fonts"
    /\ ast = Root(<<>>)
    /\ blocks = <<>>
    /\ idx = 0
    /\ estimatedHeight = NoNumber
    /\ finalHeight = <<>>
    /\ satoriCalls = <<>>
    /\ result = <<>>
    /\ steps = <<"load", "parse", "normalize", "fonts">>
    /\ env = DefaultEnv
    /\ markdown = <<FileText>>
    /\ satoriFonts = FontSlots
    /\ contentBlocks = <<>>
    /\ jsxTree = <<>>
    /\ sharpCalls = <<>>
    /\ cli = NoCli
    /\ highlighters = NoHighlighters
    /\ createCalls = NoCreateCalls
    /\ callers = [c \in Callers |->
                    [state |-> "idle", mode |-> "light", calls |-> 0,
                     awaits |-> <<>>, received |-> {}]]
    /\ promiseAll = NoPromiseAll

NextHighlighter ==
    \/ \E c \in Callers, mode \in {"light", "dark"} : CallInit(c, mode)
    \/ \E mode \in {"light", "dark"} : Settle(mode)
    \/ \E c \in Callers : Resume(c)

SpecHighlighter == InitHighlighter /\ [][NextHighlighter]_vars

\* the instances the callers have received for a mode
ReceivedFor(mode) ==
    {r.instance : r \in {x \in UNION {callers[c].received : c \in Callers} :
                            Has(x, "instance") /\ x.instance.mode = mode}}

\* C13: under every interleaving of concurrent calls, createHighlighter is
\* invoked at most once per theme mode, and all callers of a mode receive
\* the same instance.
C13_OneHighlighterPerMode ==
    \A mode \in {"light", "dark"} :
        /\ createCalls[mode] <= 1
        /\ Cardinality(ReceivedFor(mode)) <= 1

\* two callers that called while the instance was being created have both
\* received it
C13_Witness ==
    /\ createCalls["light"] = 1
    /\ \E c1, c2 \in Callers :
          /\ c1 # c2
          /\ \E r \in callers[c1].received : Has(r, "instance") /\ r.waited
          /\ \E r \in callers[c2].received : Has(r, "instance") /\ r.waited
          /\ callers[c1].mode = "light" /\ callers[c2].mode = "light"

-----------------------------------------------------------------------------
(* Claims about lists and nested content in the estimator, checked under
   SpecEstimate *)

\* the direct ListItem children of a normalized list
DirectItems(block) ==
    Cardinality({j \in 1..Len(block.children) :
                    block.children[j].type = "listItem"})

\* C21: for a top-level list with k direct items, k = 0 included, the
\* estimator adds exactly k * 28 + gap; the items of sub-lists nested in the
\* items are not counted.
C21_ListDirectItems ==
    [][(pc = "estimate" /\ idx <= Len(blocks) /\ idx' = idx + 1
            /\ blocks[idx].type = "list")
        => estimatedHeight' =
             AddIncrement(estimatedHeight,
                Px(DirectItems(blocks[idx]) * 28 + theme.spacing.gap))]_vars

\* the loop has passed a list of one item that holds a sub-list of two, and
\* then a list without items
C21_Witness ==
    /\ pc = "estimate" /\ idx = 3
    /\ blocks[1].type = "list" /\ Len(blocks[1].children) = 1
    /\ \E b \in BlocksIn(blocks[1].children) :
          b.type = "list" /\ Len(b.children) = 2
    /\ blocks[2].type = "list" /\ blocks[2].children = <<>>
    /\ estimatedHeight =
          AddIncrement(StartHeight(theme), Px(28 + 2 * theme.spacing.gap))

\* what the claim lets two top-level blocks share: kind, heading level, code
\* content and number of direct list items
Signature(block) ==
    [type |-> block.type]
      @@ (IF block.type = "heading" /\ Has(block, "level")
          THEN [level |-> block.level] ELSE <<>>)
      @@ (IF block.type = "code" /\ Has(block, "content")
          THEN [content |-> block.content] ELSE <<>>)
      @@ (IF block.type = "list"
          THEN [items |-> DirectItems(block)] ELSE <<>>)

SameTopLevel(bs1, bs2) ==
    /\ Len(bs1) = Len(bs2)
    /\ \A i \in 1..Len(bs1) : Signature(bs1[i]) = Signature(bs2[i])

\* the forest with everything nested removed: items, blockquotes, headings
\* and paragraphs left empty
Bare(bs) ==
    [i \in 1..Len(bs) |->
        IF bs[i].type = "list"
        THEN [bs[i] EXCEPT !.children =
                 [j \in 1..Len(bs[i].children) |->
                     [bs[i].children[j] EXCEPT !.children = <<>>]]]
        ELSE IF Has(bs[i], "children") THEN [bs[i] EXCEPT !.children = <<>>]
        ELSE bs[i]]

\* a list of three items, one of them a code block of two lines
StuffingList ==
    [type |-> "list", ordered |-> FALSE,
     children |-> [j \in 1..3 |->
                      [type |-> "listItem", depth |-> 1,
                       children |-> <<[type |-> "code",
                                       content |-> <<"x", "\n", "y">>]>>]]]

\* the forest with more nested in it: every list item and blockquote also
\* holds the list above
Stuffed(bs) ==
    [i \in 1..Len(bs) |->
        IF bs[i].type = "list"
        THEN [bs[i] EXCEPT !.children =
                 [j \in 1..Len(bs[i].children) |->
                     [bs[i].children[j] EXCEPT
                         !.children = Append(@, StuffingList)]]]
        ELSE IF bs[i].type = "blockquote"
        THEN [bs[i] EXCEPT !.children = Append(@, StuffingList)]
        ELSE bs[i]]

\* C22: the committed auto-mode height depends on the top-level block
\* sequence only: a forest that agrees with the call's blocks pairwise in
\* kind, heading level, code content and number of direct list items, with
\* less or with more nested inside, gets the same height under the same
\* options.
C22_TopLevelOnly ==
    (pc = "format" /\ AutoMode) =>
        \A other \in {Bare(blocks), Stuffed(blocks)} :
            SameTopLevel(blocks, other)
                => AutoHeight(other, maxContentWidth, theme, watermark)
                     = finalHeight[1]

\* a height above the lower bound was committed for a forest with a
\* non-empty blockquote and a list with a sub-list, and the two forests
\* compared with it agree with it at the top level and differ below
C22_Witness ==
    /\ pc = "format" /\ AutoMode
    /\ finalHeight[1] > MinCanvasHeight
    /\ \E i, j \in 1..Len(blocks) :
          /\ blocks[i].type = "blockquote" /\ blocks[i].children # <<>>
          /\ blocks[j].type = "list"
          /\ \E b \in BlocksIn(blocks[j].children) : b.type = "list"
    /\ SameTopLevel(blocks, Bare(blocks)) /\ Bare(blocks) # blocks
    /\ SameTopLevel(blocks, Stuffed(blocks)) /\ Stuffed(blocks) # blocks

-----------------------------------------------------------------------------
(* Claims about normalizeInlineContent, checked under SpecNormalize on the
   trees whose root holds one paragraph or heading: the children of the one
   block of the output are normalizeInlineContent of the node's children *)

\* the inline sequence normalizeInlineContent was called on
InlineSource == ast.children[1].children

\* what it returned
InlineOutput == blocks[1].children

\* the call happened, on text nodes that carry a value
InlineCall ==
    /\ pc = "normalized"
    /\ Has(ast, "children") /\ Len(ast.children) = 1
    /\ ast.children[1].type \in {"paragraph", "heading"}
    /\ Has(ast.children[1], "children")
    /\ \A i \in 1..Len(InlineSource) :
          InlineSource[i].type = "text" => Has(InlineSource[i], "value")

RECURSIVE Concat(_)
\* the text values of a sequence in order, one newline per break
Concat(nodes) ==
    IF nodes = <<>> THEN <<>>
    ELSE (CASE Head(nodes).type = "text" -> Head(nodes).value
            [] Head(nodes).type = "break" -> <<"\n">>
            [] OTHER -> <<>>)
         \o Concat(Tail(nodes))

OnlyTextAndBreaks(nodes) ==
    /\ \A i \in 1..Len(nodes) : nodes[i].type \in {"text", "break"}
    /\ \E i \in 1..Len(nodes) :
          nodes[i].type = "break" \/ nodes[i].value # <<>>

\* C23: for an inline sequence of text nodes and breaks only, with a
\* non-empty text node or a break in it, normalizeInlineContent returns
\* exactly one text block: the text values in order, one newline per break.
C23_BreakJoinsText ==
    (InlineCall /\ OnlyTextAndBreaks(InlineSource))
        => InlineOutput = <<TextBlock(Concat(InlineSource))>>

\* text, break, text became one block with the newline between the texts
C23_Witness ==
    /\ InlineCall
    /\ InlineSource = <<Text(<<"a">>), [type |-> "break"], Text(<<"b">>)>>
    /\ InlineOutput = <<TextBlock(<<"a", "\n", "b">>)>>

\* the positions of the non-text constructs of a sequence, ascending
ConstructPositions(nodes) ==
    SelectSeq([i \in 1..Len(nodes) |-> i],
              LAMBDA i : nodes[i].type \in InlineConstructs)

\* the blocks the sequence stands for, in source order: per construct the
\* text run since the previous construct, when it is non-empty, and then the
\* construct; at the end the last run. Constructs are named by their kind.
InSourceOrder(nodes) ==
    LET P == ConstructPositions(nodes)
        Run(k) == Concat(SubSeq(nodes,
                                IF k = 1 THEN 1 ELSE P[k - 1] + 1,
                                IF k > Len(P) THEN Len(nodes) ELSE P[k] - 1))
        Segment(k) ==
            (IF Run(k) # <<>> THEN <<TextBlock(Run(k))>> ELSE <<>>)
            \o (IF k <= Len(P) THEN <<[type |-> nodes[P[k]].type]>> ELSE <<>>)
        UpTo[k \in 0..(Len(P) + 1)] ==
            IF k = 0 THEN <<>> ELSE UpTo[k - 1] \o Segment(k)
    IN UpTo[Len(P) + 1]

\* the output with its constructs named by their kind
KindsAndText(out) ==
    [i \in 1..Len(out) |->
        IF out[i].type = "text" THEN out[i] ELSE [type |-> out[i].type]]

\* C24: normalizeInlineContent preserves document order: the pending
\* non-empty text is emitted before the construct that follows it and is then
\* cleared, so the blocks are in the order of their source nodes and the text
\* of the sequence's text nodes appears once.
C24_DocumentOrder ==
    InlineCall => KindsAndText(InlineOutput) = InSourceOrder(InlineSource)

\* text, inline code, text: three blocks in that order
C24_Witness ==
    /\ InlineCall
    /\ InlineSource = <<Text(<<"a">>), [type |-> "inlineCode", value |-> <<"c">>],
                        Text(<<"b">>)>>
    /\ InlineOutput = <<TextBlock(<<"a">>),
                        [type |-> "inlineCode", content |-> <<"c">>],
                        TextBlock(<<"b">>)>>

\* C28: every text block in the output of normalizeAST, at every depth, has
\* non-empty content: an empty accumulator is never flushed.
C28_TextBlocksNonEmpty ==
    \A b \in BlocksIn(blocks) :
        b.type = "text" => Has(b, "content") /\ b.content # <<>>

\* an empty text node before an inline code left no text block, and the text
\* node after it did
C28_Witness ==
    /\ InlineCall
    /\ InlineSource = <<Text(<<>>), [type |-> "inlineCode", value |-> <<"c">>],
                        Text(<<"a">>)>>
    /\ InlineOutput = <<[type |-> "inlineCode", content |-> <<"c">>],
                        TextBlock(<<"a">>)>>

-----------------------------------------------------------------------------
(* Claim about the order of the steps of a render call, checked under Spec *)

\* the steps of renderMarkdownToImage in the order of its statements
StepOrder ==
    <<"load", "parse", "normalize", "fonts", "render", "estimate", "satori",
      "sharp">>

StepRank(s) == CHOOSE i \in 1..Len(StepOrder) : StepOrder[i] = s

\* the steps taken so far are steps of the call, each taken once, in order
StepsInOrder ==
    /\ \A i \in 1..Len(steps) : \E k \in 1..Len(StepOrder) : StepOrder[k] = steps[i]
    /\ \A i, j \in 1..Len(steps) :
          i < j => StepRank(steps[i]) < StepRank(steps[j])

-----------------------------------------------------------------------------
(* components: Promise.all over concurrently started renderBlock calls.
   Every call site has the same shape: the children are mapped to promises in
   index order, the promises settle in any order (a code block with a
   language waits for the highlighter, the other blocks do not), and
   Promise.all resolves to the array of the values by index. *)

\* the blocks that render their children through Promise.all
ParentKinds ==
    {"heading", "paragraph", "blockquote", "list", "listItem", "strong",
     "emphasis", "link"}

\* the call sites in the normalized forests of RenderTrees: the top level
\* and the children of every parent block at every depth
PromiseAllSites ==
    UNION {LET bs == normalizeAST(t)
           IN {[parent |-> [type |-> "root"], inputs |-> bs]}
              \cup {[parent |-> b, inputs |-> ChildrenOrEmpty(b)] :
                        b \in {x \in BlocksIn(bs) : x.type \in ParentKinds}} :
           t \in RenderTrees}

\* the maxWidth a parent hands to the renderBlock calls of its children
SiteWidth(parent) ==
    IF parent.type \in {"strong", "emphasis", "link"} THEN <<>>
    ELSE <<MaxContentWidth(DefaultOptions)>>

\* the value the i-th promise of a site resolves to: for a list the row of
\* marker and item content, numbered start + index; else renderBlock(child)
SlotValue(parent, inputs, i) ==
    IF parent.type = "list"
    THEN RenderItems(<<inputs[i]>>,
             IF Has(parent, "ordered") /\ parent.ordered
             THEN <<(IF Has(parent, "start") /\ parent.start # 0
                     THEN parent.start ELSE 1) + (i - 1)>>
             ELSE <<>>,
             lightTheme, SiteWidth(parent), "light", DefaultEnv.shiki)[1]
    ELSE renderBlock(inputs[i], lightTheme, SiteWidth(parent), "light",
                     DefaultEnv.shiki)

\* an array filled in the order in which the promises settled
CollectAsSettled(slots, settled) ==
    [k \in 1..Len(settled) |-> slots[settled[k]][1]]

\* Promise.all: the array of the values by the index of their promise
Collect(slots, settled) == [i \in 1..Len(slots) |-> slots[i][1]]

\* children.map(child => renderBlock(child, ...)): every call is started
StartAll ==
    /\ promiseAll.state = "map"
    /\ promiseAll' = [promiseAll EXCEPT
                         !.state = "await",
                         !.slots = [i \in 1..Len(promiseAll.inputs) |-> <<>>]]
    /\ UNCHANGED <<options, pc, ast, blocks, idx, estimatedHeight, finalHeight,
                   satoriCalls, result, steps, env, markdown, satoriFonts,
                   contentBlocks, jsxTree, sharpCalls, cli, highlighters,
                   createCalls, callers>>

\* one of the pending renderBlock calls returns
Complete(i) ==
    /\ promiseAll.state = "await"
    /\ promiseAll.slots[i] = <<>>
    /\ promiseAll' = [promiseAll EXCEPT
                         !.slots[i] = <<SlotValue(promiseAll.parent,
                                                  promiseAll.inputs, i)>>,
                         !.settled = Append(@, i)]
    /\ UNCHANGED <<options, pc, ast, blocks, idx, estimatedHeight, finalHeight,
                   satoriCalls, result, steps, env, markdown, satoriFonts,
                   contentBlocks, jsxTree, sharpCalls, cli, highlighters,
                   createCalls, callers>>

\* const children = await Promise.all(...): all promises have settled
ResolveAll ==
    /\ promiseAll.state = "await"
    /\ \A i \in 1..Len(promiseAll.slots) : promiseAll.slots[i] # <<>>
    /\ promiseAll' = [promiseAll EXCEPT
                         !.state = "resolved",
                         !.children = Collect(promiseAll.slots,
                                              promiseAll.settled)]
    /\ UNCHANGED <<options, pc, ast, blocks, idx, estimatedHeight, finalHeight,
                   satoriCalls, result, steps, env, markdown, satoriFonts,
                   contentBlocks, jsxTree, sharpCalls, cli, highlighters,
                   createCalls, callers>>

InitPromiseAll ==
    /\ options = DefaultOptions
    /\ pc = "fonts"
    /\ ast = Root(<<>>)
    /\ blocks = <<>>
    /\ idx = 0
    /\ estimatedHeight = NoNumber
    /\ finalHeight = <<>>
    /\ satoriCalls = <<>>
    /\ result = <<>>
    /\ steps = <<"load", "parse", "normalize", "fonts">>
    /\ env = DefaultEnv
    /\ markdown = <<FileText>>
    /\ satoriFonts = FontSlots
    /\ contentBlocks = <<>>
    /\ jsxTree = <<>>
    /\ sharpCalls = <<>>
    /\ cli = NoCli
    /\ highlighters = NoHighlighters
    /\ createCalls = NoCreateCalls
    /\ callers = <<>>
    /\ \E site \in PromiseAllSites :
          promiseAll = [NoPromiseAll EXCEPT !.parent = site.parent,
                                           !.inputs = site.inputs,
                                           !.state = "map"]

NextPromiseAll ==
    \/ StartAll
    \/ \E i \in 1..Len(promiseAll.slots) : Complete(i)
    \/ ResolveAll

SpecPromiseAll == InitPromiseAll /\ [][NextPromiseAll]_vars

\* what the sequential reading of the parent gives as its children
SequentialChildren(parent, inputs) ==
    IF parent.type = "root"
    THEN RenderAll(inputs, lightTheme, SiteWidth(parent), "light",
                   DefaultEnv.shiki)
    ELSE SubSeq(renderBlock(parent, lightTheme,
                            <<MaxContentWidth(DefaultOptions)>>, "light",
                            DefaultEnv.shiki).children,
                1, Len(inputs))

\* C26: under any completion order of the concurrently started renderBlock
\* calls, the visual children are in the order of the normalized blocks they
\* come from: the i-th child is the rendering of the i-th block, at the top
\* level and inside every heading, paragraph, blockquote, list and list item.
C26_ChildrenInBlockOrder ==
    (promiseAll.state = "resolved") =>
        /\ Len(promiseAll.children) = Len(promiseAll.inputs)
        /\ \A i \in 1..Len(promiseAll.inputs) :
              promiseAll.children[i]
                = SlotValue(promiseAll.parent, promiseAll.inputs, i)
        /\ promiseAll.children
              = SequentialChildren(promiseAll.parent, promiseAll.inputs)

\* the calls of a blockquote's three children returned last to first, the
\* code block that waited for the highlighter last, and the children are in
\* the order of the blocks
C26_Witness ==
    /\ promiseAll.state = "resolved"
    /\ promiseAll.parent.type = "blockquote"
    /\ promiseAll.settled = <<3, 2, 1>>
    /\ promiseAll.inputs[1].type = "code" /\ Has(promiseAll.inputs[1], "language")
    /\ promiseAll.children[1] # promiseAll.children[3]
    /\ promiseAll.children[3] = renderThematicBreak(lightTheme, SiteWidth(promiseAll.parent))

-----------------------------------------------------------------------------
(* Claim about a failed createHighlighter, checked under SpecHighlighter *)

Rejected(mode) ==
    /\ highlighters[mode].promise # <<>>
    /\ highlighters[mode].promise[1].state = "rejected"

\* what the callers' tokenizeCode calls for a mode have returned
TokensFor(mode) ==
    {r.tokens : r \in {x \in UNION {callers[c].received : c \in Callers} :
                          \/ Has(x, "rejected") /\ x.rejected = mode
                          \/ Has(x, "instance") /\ x.instance.mode = mode}}

\* C27: a failed createHighlighter stays cached for its theme mode:
\* createHighlighter is not invoked again for the mode, every tokenizeCode
\* call for the mode with a language returns the plain newline-split lines,
\* and the other mode's instance is unaffected.
C27_FailedInitCached ==
    /\ [](\A mode \in {"light", "dark"} :
            Rejected(mode) =>
              /\ createCalls[mode] = 1
              /\ highlighters[mode].highlighter = <<>>
              /\ TokensFor(mode) \subseteq {PlainLines(Split(CallerCode))}
              /\ \A other \in {"light", "dark"} \ {mode} :
                    highlighters[other].highlighter # <<>> =>
                      /\ highlighters[other].highlighter
                            = <<Instance(other, 1)>>
                      /\ TokensFor(other)
                            \subseteq {ShikiLines(Split(CallerCode))})
    /\ [][\A mode \in {"light", "dark"} :
            Rejected(mode) =>
              /\ createCalls'[mode] = createCalls[mode]
              /\ highlighters'[mode] = highlighters[mode]]_vars

\* createHighlighter failed for light; a caller that asked for light after
\* the failure got the plain lines, and a caller of dark its instance
C27_Witness ==
    /\ Rejected("light")
    /\ createCalls["light"] = 1
    /\ \E c \in Callers : \E r \in callers[c].received :
          /\ Has(r, "rejected") /\ r.rejected = "light" /\ ~r.waited
          /\ r.tokens = <<<<[content |-> <<"x">>]>>, <<[content |-> <<"y">>]>>>>
    /\ \E c \in Callers : \E r \in callers[c].received :
          /\ Has(r, "instance") /\ r.instance = Instance("dark", 1)
          /\ r.tokens = ShikiLines(Split(CallerCode))

====
